---- MODULE Spec2Model ----
(***************************************************************************)
(* restrax (straxen/scripts/restrax.py): the rechunking orchestrator.      *)
(*                                                                         *)
(* The model holds the run collection of the document store (per Run: its  *)
(* status, its embedded restrax sub-document and the location of each of   *)
(* its data documents), the file system (per data unit: the pre-processed  *)
(* directory, the directory in the output folder and the directory in the  *)
(* non-registered folder) and, per orchestrator process, its position in   *)
(* infinite_loop / handle_run with the run document it holds.              *)
(***************************************************************************)
EXTENDS Integers, Sequences, FiniteSets, TLC

VARIABLES
    instances,  \* the orchestrator processes that exist (fixed by Init)
    args,       \* the command line flags of the processes (fixed by Init)
    max_tries,  \* self.max_tries as overwrite_settings left it (fixed by Init)
    status,     \* run_coll: status[r], the "status" field of Run r
    restrax,    \* run_coll: restrax[r], the "restrax" sub-document of Run r
    dbloc,      \* run_coll: dbloc[u], data.$.location of data unit u
    fs,         \* file system: fs[u][d], the content of u's directory in folder d
    pc,         \* pc[o]: where process o is in main / infinite_loop / handle_run
    run_doc,    \* run_doc[o]: the run document find_work returned to o
    compress_docs, \* compress_docs[o]: handle_run's list of docs to rechunk
    skip_docs,  \* skip_docs[o]: handle_run's list of docs to move verbatim
    idx,        \* idx[o]: position in the list the current step iterates over
    lost,       \* lost[o]: an exception died in a worker thread of this attempt
    nfail,      \* history: nfail[r], calls of set_restrax_failed for Run r
    nattempt,   \* history: nattempt[r], attempts of Run r that ended in the except clause
    escalations,\* history: escalations[r], "Failed too many times" warnings for Run r
    ncrash,     \* history: number of process kills so far
    last,       \* history: the last store update of the restrax state
    query,      \* a function of the orchestrator under evaluation: arguments, result
    pool        \* rechunk_docs: the threads of one call

vars == <<instances, args, max_tries, status, restrax, dbloc, fs, pc, run_doc,
          compress_docs, skip_docs, idx, lost, nfail, nattempt, escalations,
          ncrash, last, query, pool>>

dbvars == <<status, restrax, dbloc>>
localvars == <<run_doc, compress_docs, skip_docs, idx, lost>>
histvars == <<nfail, nattempt, escalations, last>>
auxvars == <<query, pool>>
loopvars == <<instances, args, max_tries, dbvars, fs, pc, localvars, histvars, ncrash>>

----------------------------------------------------------------------------
(* Bounds of the model.                                                    *)

NRuns == 3          \* Runs in the run collection
NUnits == 4         \* data units (data documents) over all Runs
MaxFails == 4       \* failed attempts (over all Runs) the model follows
MaxCrashes == 1     \* process kills the model follows

(* Program constants. *)
max_tries_default == 5      \* ReStrax.max_tries
recompress_min_chunks == 2  \* --recompress_min_chunks default

Orchs == {1, 2}
Runs == 1..NRuns
Units == 1..NUnits

----------------------------------------------------------------------------
(* Strings as sequences of characters, so that fnmatch and `in` are        *)
(* computed and not looked up.                                             *)

raw_records == <<"r","a","w","_","r","e","c","o","r","d","s">>
raw_records_nv == raw_records \o <<"_","n","v">>
raw_records_mv == raw_records \o <<"_","m","v">>
raw_records_he == raw_records \o <<"_","h","e">>
records == <<"r","e","c","o","r","d","s">>
records_nv == records \o <<"_","n","v">>
records_mv == records \o <<"_","m","v">>
live_data == <<"l","i","v","e","_","d","a","t","a">>
event_info == <<"e","v","e","n","t","_","i","n","f","o">>
peaks == <<"p","e","a","k","s">>

raw_record_types ==
    {raw_records, raw_records_nv, raw_records_mv, raw_records_he,
     records, records_nv, records_mv}

pmtgain == <<"p","m","t","g","a","i","n">>
pmtap == <<"p","m","t","a","p">>
exttrig == <<"e","x","t","t","r","i","g">>
noise == <<"n","o","i","s","e">>
background == <<"b","a","c","k","g","r","o","u","n","d">>

nVeto_LASER_calibration ==
    <<"n","V","e","t","o","_","L","A","S","E","R","_","c","a","l","i","b","r","a","t","i","o","n">>
mv_diffuserballs == <<"m","v","_","d","i","f","f","u","s","e","r","b","a","l","l","s">>
mv_fibres == <<"m","v","_","f","i","b","r","e","s">>
mv_darkrate == <<"m","v","_","d","a","r","k","r","a","t","e">>

exclude_modes ==
    {pmtgain, pmtap, exttrig, noise, nVeto_LASER_calibration, mv_diffuserballs,
     mv_fibres, mv_darkrate}

skip_compression == {<<"*","e","v","e","n","t","*">>}

RECURSIVE fnmatch(_, _)
fnmatch(name, pat) ==
    IF pat = <<>> THEN name = <<>>
    ELSE IF Head(pat) = "*"
         THEN fnmatch(name, Tail(pat))
              \/ (name # <<>> /\ fnmatch(Tail(name), pat))
         ELSE /\ name # <<>>
              /\ (Head(pat) = "?" \/ Head(pat) = Head(name))
              /\ fnmatch(Tail(name), Tail(pat))

(* Python's `m in run_mode` on strings: m is a substring of run_mode. *)
IsSubstring(m, s) ==
    \E i \in 0..(Len(s) - Len(m)) : SubSeq(s, i + 1, i + Len(m)) = m

----------------------------------------------------------------------------
(* The run collection as the upstream stages left it.                      *)

hostname == "eb0"

(* Run of data unit u: units 1 and 2 belong to Run 1, the others to one    *)
(* Run each (the last Run takes the rest).                                 *)
UnitRun(u) == IF u <= 2 THEN 1 ELSE IF u - 1 <= NRuns THEN u - 1 ELSE NRuns

(* data.$.host: the fourth unit was written by another event builder.      *)
UnitHost(u) == IF u = 4 THEN "eb1" ELSE hostname

(* data.$.type *)
UnitType(u) ==
    CASE u % 3 = 1 -> raw_records
      [] u % 3 = 2 -> event_info
      [] OTHER -> peaks

(* The "mode" field of the run document. *)
RunMode(r) == background

(* metadata["chunks"]: nbytes summed over the chunks of the unit.          *)
UnitSize(u) == IF UnitType(u) \in raw_record_types THEN 3 ELSE 1


(* metadata["chunks"] of the unit as bootstrax wrote it: number of chunks. *)
UnitChunks(u) == IF UnitType(u) \in raw_record_types \/ UnitType(u) = peaks THEN 5 ELSE 1

(* bootstrax.state and bootstrax.host of the run document. Every Run was    *)
(* built by the event builder of the processes, except where the Runs of a *)
(* fleet of event builders are followed: there `query` holds the builder   *)
(* of each Run.                                                            *)
BootstraxState(r) == "done"
BootstraxHost(r) == IF query.fn = "fleet" THEN query.hosts[r] ELSE hostname

(* The data array of Run r in the store, in the order of the array. *)
RECURSIVE DataOf(_, _)
DataOf(r, u) ==
    IF u > NUnits THEN <<>>
    ELSE (IF UnitRun(u) = r THEN <<u>> ELSE <<>>) \o DataOf(r, u + 1)

----------------------------------------------------------------------------
(* The file system. A directory is absent ("none"), holds the data as      *)
(* bootstrax wrote it ("orig"), holds all records rechunked ("re"), or     *)
(* holds a truncated copy with fewer records ("part").                     *)

Folders == {"pre", "out", "quar"}
Content == {"none", "orig", "re", "part"}

(* os.path.exists *)
Exists(c) == c # "none"

(* sum(chunk["n"] for chunk in metadata["chunks"]) *)
RecordCount(c) == IF c \in {"orig", "re"} THEN 2 ELSE IF c = "part" THEN 1 ELSE 0

(* len(metadata["chunks"]) *)
ChunkCount(u, c) == IF c = "orig" THEN UnitChunks(u) ELSE (UnitChunks(u) + 1) \div 2

(* sum(chunk["nbytes"]) of the directory's metadata *)
SizeOf(u, c) == IF c = "part" THEN UnitSize(u) - 1 ELSE UnitSize(u)

(* every record of the unit is in the directory *)
Complete(c) == c \in {"orig", "re"}

(* renamed_path(path): the same base name in write_to (the output folder), *)
(* or in _move_to when given.                                              *)
renamed_path(path) == "out"
renamed_path_to(path, move_to) == move_to

(* daq_core.non_registered_folder *)
non_registered_folder == "quar"

----------------------------------------------------------------------------
(* The restrax sub-document of a run document.                             *)

NoRestrax ==
    [state |-> "none", n_tries |-> 0, started_processing |-> FALSE,
     host |-> "", ended |-> FALSE, reason |-> ""]

(* The projection find_work asks for when none is given. *)
default_projection == {"data", "number", "mode", "detectors", "rate"}

(* What find_one returns of the restrax field under a projection. *)
Projected(doc, projection) ==
    IF "restrax" \in projection /\ doc.state # "none"
    THEN [present |-> TRUE, n_tries |-> doc.n_tries]
    ELSE [present |-> FALSE, n_tries |-> 0]

NoRunDoc == [number |-> 0, restrax |-> [present |-> FALSE, n_tries |-> 0], data |-> <<>>]


(* set_restrax_busy: the document written over the restrax field. n_tries  *)
(* is computed from the run document the process holds, not from the store.*)
BusyDoc(rd) ==
    [state |-> "busy",
     n_tries |-> IF ~rd.restrax.present THEN 1 ELSE rd.restrax.n_tries + 1,
     started_processing |-> TRUE,
     host |-> hostname,
     ended |-> FALSE,
     reason |-> ""]

(* set_restrax_done: $set of restrax.state, restrax.ended (and the memory  *)
(* usage) on the stored document.                                          *)
DoneDoc(doc) == [doc EXCEPT !.state = "done", !.ended = TRUE]

(* A set_restrax_failed without the $inc of restrax.n_tries. *)
FailedDoc_no_inc(doc, reason) ==
    [doc EXCEPT !.state = "failed", !.ended = TRUE, !.reason = reason]

(* set_restrax_failed: $set of restrax.state, restrax.ended and            *)
(* restrax.reason, then $inc of restrax.n_tries on the stored document.    *)
FailedDoc(doc, reason) ==
    [doc EXCEPT !.state = "failed", !.ended = TRUE, !.reason = reason,
                !.n_tries = @ + 1]

(* set_restrax_failed: the condition of the "Failed too many times"        *)
(* warning, read from the run document the process holds.                  *)
Escalates(rd) ==
    (IF rd.restrax.present THEN rd.restrax.n_tries ELSE 0) >= max_tries

----------------------------------------------------------------------------
(* find_work in production mode.                                           *)

Max(S) == CHOOSE x \in S : \A y \in S : y <= x

(* A find_one that returns the oldest matching Run. *)
FindOne_oldest(S) == IF S = {} THEN 0 ELSE CHOOSE x \in S : \A y \in S : x <= y

(* find_one(query, sort=[("_id", -1)]): the newest matching Run, 0 for None *)
FindOne(S) == IF S = {} THEN 0 ELSE Max(S)

(* The part of the query both find_one calls share. *)
MatchesBase(r) ==
    /\ status[r] = "eb_finished_pre"
    /\ BootstraxState(r) = "done"
    /\ BootstraxHost(r) = hostname
    /\ (args.process # 0 => r = args.process)

(* query: "restrax": None *)
MatchesNew(r) == MatchesBase(r) /\ restrax[r].state = "none"

(* The query for previously tried Runs without restrax.state $ne "done". *)
MatchesTried_any_state(r) ==
    /\ MatchesBase(r)
    /\ restrax[r].state # "none"
    /\ restrax[r].n_tries < max_tries + 1

(* query without "restrax", with restrax.n_tries $lt max_tries + 1 and     *)
(* restrax.state $ne "done"; $lt does not match a missing field.           *)
MatchesTried(r) ==
    /\ MatchesBase(r)
    /\ restrax[r].state # "none"
    /\ restrax[r].n_tries < max_tries + 1
    /\ restrax[r].state # "done"

(* The Run _find_production_work reads from the store, 0 for None. *)
FoundRun ==
    IF FindOne({r \in Runs : MatchesNew(r)}) # 0
    THEN FindOne({r \in Runs : MatchesNew(r)})
    ELSE FindOne({r \in Runs : MatchesTried(r)})

(* The data array of the run document as the store holds it. *)
StoredData(r) ==
    [i \in 1..Len(DataOf(r, 1)) |->
        [u |-> DataOf(r, 1)[i], location |-> dbloc[DataOf(r, 1)[i]]]]

----------------------------------------------------------------------------
(* _get_data_docs                                                          *)

(* A selection that keeps the docs of every host. *)
SelectSeqHost_any_host(docs) == docs

RECURSIVE SelectSeqHost(_)
SelectSeqHost(docs) ==
    IF docs = <<>> THEN <<>>
    ELSE (IF UnitHost(Head(docs).u) = hostname THEN <<Head(docs)>> ELSE <<>>)
         \o SelectSeqHost(Tail(docs))

(* Insert doc d behind the docs that are at least as large (sorted is stable) *)
RECURSIVE InsertBySize(_, _)
InsertBySize(d, docs) ==
    IF docs = <<>> THEN <<d>>
    ELSE IF SizeOf(Head(docs).u, fs[Head(docs).u][Head(docs).location])
            >= SizeOf(d.u, fs[d.u][d.location])
         THEN <<Head(docs)>> \o InsertBySize(d, Tail(docs))
         ELSE <<d>> \o docs

(* A _get_data_docs that leaves the docs in the order of the data array. *)
SortedBySize_unsorted(docs) == docs

RECURSIVE SortedBySize(_)
SortedBySize(docs) ==
    IF docs = <<>> THEN <<>>
    ELSE LET n == Len(docs)
         IN InsertBySize(docs[n], SortedBySize(SubSeq(docs, 1, n - 1)))

(* storage_backend.get_metadata(location) raises when the directory holds  *)
(* no metadata.                                                            *)
MetadataMissing(d) == ~Exists(fs[d.u][d.location])

(* _get_data_docs raises (after set_restrax_failed) when the size of one   *)
(* of the docs of this host cannot be read.                                *)
GetDataDocsRaises(docs) ==
    \E i \in 1..Len(SelectSeqHost(docs)) : MetadataMissing(SelectSeqHost(docs)[i])

_get_data_docs(docs) == SortedBySize(SelectSeqHost(docs))

----------------------------------------------------------------------------
(* should_skip_compression                                                 *)

(* A should_skip_compression that keeps data of exactly                    *)
(* recompress_min_chunks chunks for recompression.                         *)
ShouldSkip_lt(bypass_mode, run_mode, data_type, n_chunks) ==
    \/ bypass_mode
    \/ \E m \in exclude_modes : IsSubstring(m, run_mode)
    \/ data_type = live_data
    \/ \E delete \in skip_compression : fnmatch(data_type, delete)
    \/ /\ n_chunks < recompress_min_chunks
       /\ data_type \notin raw_record_types

(* The body of should_skip_compression, on the values it reads: the       *)
(* bypass_mode setting, run_doc["mode"], data_doc["type"] and the number   *)
(* of chunks in the metadata of data_doc["location"].                      *)
ShouldSkip(bypass_mode, run_mode, data_type, n_chunks) ==
    \/ bypass_mode
    \/ \E m \in exclude_modes : IsSubstring(m, run_mode)
    \/ data_type = live_data
    \/ \E delete \in skip_compression : fnmatch(data_type, delete)
    \/ /\ n_chunks <= recompress_min_chunks
       /\ data_type \notin raw_record_types

should_skip_compression(r, d) ==
    ShouldSkip(args.bypass_mode, RunMode(r), UnitType(d.u),
               ChunkCount(d.u, fs[d.u][d.location]))

(* A split that puts every doc on both lists. *)
SelectSkip_all(r, docs, want) == docs

RECURSIVE SelectSkip(_, _, _)
SelectSkip(r, docs, want) ==
    IF docs = <<>> THEN <<>>
    ELSE (IF should_skip_compression(r, Head(docs)) = want THEN <<Head(docs)>> ELSE <<>>)
         \o SelectSkip(r, Tail(docs), want)


----------------------------------------------------------------------------
(* Initial states: the processes have just been started, no Run has a      *)
(* restrax field, every data document points to the pre-processed folder.  *)
(* The Runs in `eligible` have the status eb_finished_pre, the others are  *)
(* still with the upstream stage.                                          *)

Flags(ignore_checks, max_threads, undying) ==
    [production |-> TRUE, ignore_checks |-> ignore_checks,
     max_threads |-> max_threads, undying |-> undying,
     bypass_mode |-> FALSE, process |-> 0, process_given |-> FALSE,
     deep_compare |-> FALSE]

(* The command line flags with --deep_compare. *)
WithDeepCompare(flags) == [flags EXCEPT !.deep_compare = TRUE]

(* The command line flags with --process n: args.process is n. Without     *)
(* --process it is None, which is 0 here: the code tests args.process and  *)
(* self.process for truth only, except in _find_testing_work.              *)
WithProcess(flags, n) == [flags EXCEPT !.process = n, !.process_given = TRUE]

(* max_tries: the class default, or the value of the restrax_config        *)
(* document that overwrite_settings applied (an int replaces an int).      *)
MaxTriesSet == {max_tries_default, 2}

(* The processes the model follows: the command lines with checks with    *)
(* the default of max_tries, and the default command line and the one with *)
(* --ignore_checks with the configured max_tries.                          *)
Deployments ==
    {<<Flags(FALSE, 2, TRUE), max_tries_default>>,
     <<Flags(FALSE, 1, FALSE), max_tries_default>>}
    \cup {<<a, m>> : a \in {Flags(FALSE, 2, TRUE), Flags(TRUE, 1, FALSE)},
                     m \in MaxTriesSet \ {max_tries_default}}

CleanDirs == [pre |-> "orig", out |-> "none", quar |-> "none"]

(* The file system the processes find: all units in the pre-processed      *)
(* folder; possibly a leftover directory of unit 1 or 2 in the output      *)
(* folder, or the directory of unit 3 gone.                                *)
InitFS ==
    {[u \in Units |-> CleanDirs],
     [[u \in Units |-> CleanDirs] EXCEPT ![1].out = "part"],
     [[u \in Units |-> CleanDirs] EXCEPT ![2].out = "re"],
     [[u \in Units |-> CleanDirs] EXCEPT ![3].pre = "none"]}

(* No function under evaluation, no call of rechunk_docs followed. *)
NoQuery == [fn |-> "", done |-> FALSE]
NoPool == [max_threads |-> 0, docs |-> 0, started |-> 0, alive |-> {}, raised |-> {},
           pc |-> "off"]

NoLast == [run |-> 0, op |-> "", from |-> "", to |-> "", claimed |-> FALSE,
           n_before |-> 0]

InitState(eligible) ==
    /\ status = [r \in Runs |-> IF r \in eligible THEN "eb_finished_pre"
                                 ELSE "transferring"]
    /\ restrax = [r \in Runs |-> NoRestrax]
    /\ dbloc = [u \in Units |-> "pre"]
    /\ fs \in InitFS
    /\ pc = [o \in Orchs |-> IF o \in instances THEN "idle" ELSE "off"]
    /\ run_doc = [o \in Orchs |-> NoRunDoc]
    /\ compress_docs = [o \in Orchs |-> <<>>]
    /\ skip_docs = [o \in Orchs |-> <<>>]
    /\ idx = [o \in Orchs |-> 0]
    /\ lost = [o \in Orchs |-> FALSE]
    /\ nfail = [r \in Runs |-> 0]
    /\ nattempt = [r \in Runs |-> 0]
    /\ escalations = [r \in Runs |-> 0]
    /\ ncrash = 0
    /\ last = NoLast
    /\ pool = NoPool

InitStore(eligible) == InitState(eligible) /\ query = NoQuery

InitCommon(eligible) ==
    /\ \E d \in Deployments : args = d[1] /\ max_tries = d[2]
    /\ InitStore(eligible)

Init == instances = {1} /\ InitCommon(Runs)

----------------------------------------------------------------------------
(* Leaving the loop with an exception: main logs it and, with --undying,   *)
(* sleeps and calls infinite_loop again; without, the process ends.        *)

Forget(o) ==
    /\ run_doc' = [run_doc EXCEPT ![o] = NoRunDoc]
    /\ compress_docs' = [compress_docs EXCEPT ![o] = <<>>]
    /\ skip_docs' = [skip_docs EXCEPT ![o] = <<>>]
    /\ idx' = [idx EXCEPT ![o] = 0]
    /\ lost' = [lost EXCEPT ![o] = FALSE]

(* The base class DataBases provides log_warning and the collections; an   *)
(* attribute `error` is not among what ReStrax or its callers define.      *)
DataBasesHasError == FALSE

(* main, the handler of an exception that left infinite_loop: log_warning  *)
(* with priority "error" may raise itself (report_fails); its handler      *)
(* evaluates restrax.error(...), and an exception of that call leaves      *)
(* main. Otherwise main raises again without --undying and sleeps and      *)
(* calls infinite_loop again with it.                                      *)
MainHandler(report_fails) ==
    IF report_fails /\ ~DataBasesHasError THEN "dead"
    ELSE IF args.undying THEN "idle" ELSE "dead"

AfterException == {MainHandler(report_fails) : report_fails \in BOOLEAN}

(* k calls of set_restrax_failed(run_doc, reason) on the stored document   *)
RECURSIVE FailedTimes(_, _, _)
FailedTimes(doc, reason, k) ==
    IF k = 0 THEN doc ELSE FailedTimes(FailedDoc(doc, reason), reason, k - 1)

(* The store and the history after process o called set_restrax_failed k   *)
(* times for the Run it holds (rd), in production mode.                    *)
SetFailed(o, rd, reason, k, claimed) ==
    LET r == rd.number IN
    /\ restrax' = [restrax EXCEPT ![r] =
                     IF args.production THEN FailedTimes(@, reason, k) ELSE @]
    /\ nfail' = [nfail EXCEPT ![r] = @ + k]
    /\ escalations' = [escalations EXCEPT ![r] = @ + (IF Escalates(rd) THEN k ELSE 0)]
    /\ last' = [run |-> r, op |-> "failed",
                from |-> IF k > 1 THEN "failed" ELSE restrax[r].state,
                to |-> "failed", claimed |-> claimed,
                n_before |-> restrax[r].n_tries]

(* An exception inside handle_run: the except clause of infinite_loop      *)
(* calls set_restrax_failed and raises again.                              *)
HandleRaise(o, reason, k) ==
    /\ SetFailed(o, run_doc[o], reason, k, TRUE)
    /\ nattempt' = [nattempt EXCEPT ![run_doc[o].number] = @ + 1]
    /\ \E after \in AfterException : pc' = [pc EXCEPT ![o] = after]
    /\ Forget(o)


----------------------------------------------------------------------------
(* infinite_loop: overwrite_settings, find_work.                           *)

RECURSIVE SumTo(_, _)
SumTo(f, n) == IF n = 0 THEN 0 ELSE f[n] + SumTo(f, n - 1)

(* The model follows the processes up to MaxFails failed attempts. *)
MayTry == SumTo(nattempt, NRuns) < MaxFails

(* The run document find_work returns for Run r. *)
FoundDoc(r, projection) ==
    [number |-> r,
     restrax |-> Projected(restrax[r], projection),
     data |-> _get_data_docs(StoredData(r))]

(* find_work found a Run and read the sizes of its data. *)
FindWork(o) ==
    /\ pc[o] = "idle"
    /\ args.production
    /\ FoundRun # 0
    /\ MayTry
    /\ ~GetDataDocsRaises(StoredData(FoundRun))
    /\ run_doc' = [run_doc EXCEPT ![o] = FoundDoc(FoundRun, default_projection)]
    /\ pc' = [pc EXCEPT ![o] = "found"]
    /\ UNCHANGED <<auxvars, instances, args, max_tries, dbvars, fs, compress_docs, skip_docs, idx,
                   lost, histvars, ncrash>>

(* find_work found a Run, _get_data_docs could not read a size: it calls   *)
(* set_restrax_failed and raises; the exception leaves infinite_loop.      *)
FindWorkRaises(o) ==
    /\ pc[o] = "idle"
    /\ args.production
    /\ FoundRun # 0
    /\ MayTry
    /\ GetDataDocsRaises(StoredData(FoundRun))
    /\ SetFailed(o, [number |-> FoundRun,
                     restrax |-> Projected(restrax[FoundRun], default_projection),
                     data |-> StoredData(FoundRun)],
                 "DataCorrupted", 1, FALSE)
    /\ \E after \in AfterException : pc' = [pc EXCEPT ![o] = after]
    /\ UNCHANGED <<auxvars, instances, args, max_tries, status, dbloc, fs, localvars, nattempt, ncrash>>

(* infinite_loop(close): with --process the loop is left after one Run,   *)
(* or when find_work returned None, and main ends.                         *)
AfterLoop(otherwise) == IF args.process # 0 THEN "exited" ELSE otherwise

(* find_work returned None: take_a_nap. *)
NoWork(o) ==
    /\ pc[o] = "idle"
    /\ args.production
    /\ FoundRun = 0
    /\ pc' = [pc EXCEPT ![o] = AfterLoop("nap")]
    /\ UNCHANGED <<auxvars, instances, args, max_tries, dbvars, fs, localvars, histvars, ncrash>>

WakeUp(o) ==
    /\ pc[o] = "nap"
    /\ pc' = [pc EXCEPT ![o] = "idle"]
    /\ UNCHANGED <<auxvars, instances, args, max_tries, dbvars, fs, localvars, histvars, ncrash>>

(* set_restrax_busy(run_doc): update_one by _id, $set of the restrax field. *)
SetBusy(o) ==
    /\ pc[o] = "found"
    /\ LET r == run_doc[o].number IN
       /\ restrax' = [restrax EXCEPT ![r] =
                        IF args.production THEN BusyDoc(run_doc[o]) ELSE @]
       /\ last' = [run |-> r, op |-> "busy", from |-> restrax[r].state,
                   to |-> "busy", claimed |-> TRUE,
                   n_before |-> restrax[r].n_tries]
    /\ pc' = [pc EXCEPT ![o] = "handle"]
    /\ UNCHANGED <<auxvars, instances, args, max_tries, status, dbloc, fs, localvars, nfail,
                   nattempt, escalations, ncrash>>

----------------------------------------------------------------------------
(* handle_run                                                              *)

(* The step that follows the rechunking of docs[i..]. *)
AfterRechunk(docs, i) == IF i > Len(docs) THEN "checks" ELSE "rechunk"
AfterRemove(o, i) == IF i > Len(compress_docs[o]) THEN "finished" ELSE "remove"
AfterFinalize(o, i) == IF i > Len(run_doc[o].data) THEN "status" ELSE "finalize"
(* finalize_execute returns at once when there are no data docs. *)
EnterFinalize(o) ==
    IF ~args.production \/ Len(run_doc[o].data) = 0 THEN AfterRemove(o, 1) ELSE "finalize"
AfterBypass(o, i) == IF i > Len(skip_docs[o]) THEN EnterFinalize(o) ELSE "bypass"
(* validate_data follows do_checks with --deep_compare. *)
AfterChecks(o) == IF args.deep_compare THEN "validate" ELSE AfterBypass(o, 1)
(* The index the next step starts from. *)
NextIdx(from, to, i) == IF from = to THEN i ELSE 1

(* _get_data_docs and the split in compress_docs and skip_docs. *)
HandleStart(o) ==
    /\ pc[o] = "handle"
    /\ LET r == run_doc[o].number
           docs == _get_data_docs(run_doc[o].data)
           cdocs == SelectSkip(r, docs, FALSE)
       IN IF GetDataDocsRaises(run_doc[o].data)
          THEN \* set_restrax_failed in _get_data_docs and in infinite_loop
               /\ HandleRaise(o, "DataCorrupted", 2)
               /\ UNCHANGED <<auxvars, instances, args, max_tries, status, dbloc, fs, ncrash>>
          ELSE /\ compress_docs' = [compress_docs EXCEPT ![o] = cdocs]
               /\ skip_docs' = [skip_docs EXCEPT ![o] = SelectSkip(r, docs, TRUE)]
               /\ idx' = [idx EXCEPT ![o] = 1]
               /\ pc' = [pc EXCEPT ![o] = AfterRechunk(cdocs, 1)]
               /\ UNCHANGED <<auxvars, instances, args, max_tries, dbvars, fs, run_doc, lost,
                              histvars, ncrash>>


(* strax.rechunker(source_directory, dest_directory): what it leaves in    *)
(* the output directory and whether it raises. It writes all records       *)
(* ("written"), returns after a write that lost records ("truncated"), or  *)
(* raises (compressor error, saver timeout) with a truncated, an absent or *)
(* an untouched output directory.                                          *)
RechunkOutcomes == {"written", "truncated", "error_part", "error_none", "error_kept"}

RechunkRaises(outcome) == outcome \in {"error_part", "error_none", "error_kept"}

RechunkLeaves(outcome, before) ==
    CASE outcome = "written" -> "re"
      [] outcome \in {"truncated", "error_part"} -> "part"
      [] outcome = "error_none" -> "none"
      [] OTHER -> before

(* rechunk_docs starts a thread per doc when max_threads > 1: an exception *)
(* of _rechunk_per_doc ends its thread and does not reach handle_run.      *)
RaiseReachesHandleRun == args.max_threads <= 1

(* _rechunk_per_doc for the next doc of compress_docs. *)
RechunkDoc(o) ==
    /\ pc[o] = "rechunk"
    /\ idx[o] <= Len(compress_docs[o])
    /\ LET d == compress_docs[o][idx[o]]
           dir_in == d.location
           dir_out == renamed_path(dir_in)
       IN \E outcome \in RechunkOutcomes :
            LET raises == ~Exists(fs[d.u][dir_in]) \/ RechunkRaises(outcome)
                fs2 == IF ~Exists(fs[d.u][dir_in]) THEN fs
                       ELSE [fs EXCEPT ![d.u][dir_out] = RechunkLeaves(outcome, @)]
            IN /\ fs' = fs2
               /\ IF raises /\ RaiseReachesHandleRun
                  THEN /\ HandleRaise(o, IF Exists(fs[d.u][dir_in])
                                         THEN "RechunkError" ELSE "FileNotFoundError", 1)
                       /\ UNCHANGED <<auxvars, instances, args, max_tries, status, dbloc, ncrash>>
                  ELSE /\ lost' = [lost EXCEPT ![o] = @ \/ raises]
                       /\ pc' = [pc EXCEPT ![o] = AfterRechunk(compress_docs[o], idx[o] + 1)]
                       /\ idx' = [idx EXCEPT ![o] = NextIdx("rechunk", pc'[o], @ + 1)]
                       /\ UNCHANGED <<auxvars, instances, args, max_tries, dbvars, run_doc, compress_docs,
                                      skip_docs, histvars, ncrash>>

(* A do_checks that compares no record counts: only the existence of the   *)
(* two directories.                                                        *)
CheckErrors_no_count(d) ==
    LET dir_in == d.location
        dir_out == renamed_path(dir_in)
    IN \/ ~Exists(fs[d.u][dir_in])
       \/ ~Exists(fs[d.u][dir_out])

(* do_checks: the errors of one doc. *)
CheckErrors(d) ==
    LET dir_in == d.location
        dir_out == renamed_path(dir_in)
    IN \/ ~Exists(fs[d.u][dir_in])
       \/ ~Exists(fs[d.u][dir_out])
       \/ RecordCount(fs[d.u][dir_in]) # RecordCount(fs[d.u][dir_out])

(* do_checks(compress_docs) raises. *)
ChecksRaise(docs) ==
    /\ ~args.ignore_checks
    /\ \E i \in 1..Len(docs) : CheckErrors(docs[i])

DoChecks(o) ==
    /\ pc[o] = "checks"
    /\ IF ChecksRaise(compress_docs[o])
       THEN /\ HandleRaise(o, "ValueError", 1)
            /\ UNCHANGED <<auxvars, instances, args, max_tries, status, dbloc, fs, ncrash>>
       ELSE /\ idx' = [idx EXCEPT ![o] = 1]
            /\ pc' = [pc EXCEPT ![o] = AfterChecks(o)]
            /\ UNCHANGED <<auxvars, instances, args, max_tries, dbvars, fs, run_doc, compress_docs,
                           skip_docs, lost, histvars, ncrash>>

(* _validate_data_per_doc of one doc raises: get_metadata or the loader    *)
(* on a directory that does not exist, or _compare_data found the data of  *)
(* the two directories different.                                          *)
ValidateErrors(d) ==
    LET dir_in == d.location
        dir_out == renamed_path(dir_in)
    IN \/ ~Exists(fs[d.u][dir_in])
       \/ ~Exists(fs[d.u][dir_out])
       \/ RecordCount(fs[d.u][dir_in]) # RecordCount(fs[d.u][dir_out])

(* validate_data(compress_docs), called with --deep_compare. *)
ValidateData(o) ==
    /\ pc[o] = "validate"
    /\ IF \E i \in 1..Len(compress_docs[o]) : ValidateErrors(compress_docs[o][i])
       THEN /\ HandleRaise(o, "ValueError", 1)
            /\ UNCHANGED <<auxvars, instances, args, max_tries, status, dbloc, fs, ncrash>>
       ELSE /\ idx' = [idx EXCEPT ![o] = 1]
            /\ pc' = [pc EXCEPT ![o] = AfterBypass(o, 1)]
            /\ UNCHANGED <<auxvars, instances, args, max_tries, dbvars, fs, run_doc, compress_docs,
                           skip_docs, lost, histvars, ncrash>>

(* _move_dir(source, dest) = os.rename in production mode: it raises when  *)
(* dest is a directory that is not empty.                                  *)
MoveRaises(f, u, source, dest) == args.production /\ Exists(f[u][dest])

(* A _move_dir that renames in test mode as well. *)
MoveDir_always(f, u, source, dest) ==
    IF source # dest
    THEN [f EXCEPT ![u][dest] = f[u][source], ![u][source] = "none"]
    ELSE f

MoveDir(f, u, source, dest) ==
    IF args.production /\ source # dest
    THEN [f EXCEPT ![u][dest] = f[u][source], ![u][source] = "none"]
    ELSE f

(* _bypass_for_data_doc: the file system after it, given that no rename    *)
(* raised.                                                                 *)
BypassBackup(f, d) ==
    LET dest == renamed_path(d.location)
    IN IF Exists(f[d.u][dest])
       THEN MoveDir(f, d.u, dest, renamed_path_to(d.location, non_registered_folder))
       ELSE f

BypassRaises(f, d) ==
    LET dest == renamed_path(d.location)
    IN /\ Exists(f[d.u][dest])
       /\ MoveRaises(f, d.u, dest, renamed_path_to(d.location, non_registered_folder))

BypassMove(f, d) ==
    LET source == d.location
        dest == renamed_path(source)
        f1 == BypassBackup(f, d)
    IN IF ~Exists(f1[d.u][source]) THEN f1 ELSE MoveDir(f1, d.u, source, dest)

(* _bypass_for_data_doc: the calls of log_warning it makes: one after the   *)
(* backup of an existing dest (none when the rename of the backup raised), *)
(* one when the source does not exist.                                     *)
BypassAlerts(f, d) ==
    LET source == d.location
        dest == renamed_path(source)
    IN IF BypassRaises(f, d) THEN 0
       ELSE (IF Exists(f[d.u][dest]) THEN 1 ELSE 0)
            + (IF ~Exists(BypassBackup(f, d)[d.u][source]) THEN 1 ELSE 0)

BypassDoc(o) ==
    /\ pc[o] = "bypass"
    /\ idx[o] <= Len(skip_docs[o])
    /\ LET d == skip_docs[o][idx[o]]
       IN IF BypassRaises(fs, d)
          THEN /\ HandleRaise(o, "OSError", 1)
               /\ UNCHANGED <<auxvars, instances, args, max_tries, status, dbloc, fs, ncrash>>
          ELSE /\ fs' = BypassMove(fs, d)
               /\ pc' = [pc EXCEPT ![o] = AfterBypass(o, idx[o] + 1)]
               /\ idx' = [idx EXCEPT ![o] = NextIdx("bypass", pc'[o], @ + 1)]
               /\ UNCHANGED <<auxvars, instances, args, max_tries, dbvars, run_doc, compress_docs,
                              skip_docs, lost, histvars, ncrash>>


(* finalize_execute, one data doc: the metadata of the output directory is *)
(* read (get_metadata raises when there is none) and the data document     *)
(* that still has the old location gets the new one. The update of the     *)
(* store may raise.                                                        *)
FinalizeDoc(o) ==
    /\ pc[o] = "finalize"
    /\ idx[o] <= Len(run_doc[o].data)
    /\ LET d == run_doc[o].data[idx[o]]
           dir_out == renamed_path(d.location)
       IN \E store_error \in BOOLEAN :
            IF ~Exists(fs[d.u][dir_out]) \/ store_error
            THEN /\ HandleRaise(o, IF store_error THEN "StoreError" ELSE "DataCorrupted", 1)
                 /\ UNCHANGED <<auxvars, instances, args, max_tries, status, dbloc, fs, ncrash>>
            ELSE /\ dbloc' = [dbloc EXCEPT ![d.u] =
                                IF @ = d.location THEN dir_out ELSE @]
                 /\ pc' = [pc EXCEPT ![o] = AfterFinalize(o, idx[o] + 1)]
                 /\ idx' = [idx EXCEPT ![o] = NextIdx("finalize", pc'[o], @ + 1)]
                 /\ UNCHANGED <<auxvars, instances, args, max_tries, status, restrax, fs, run_doc,
                                compress_docs, skip_docs, lost, histvars, ncrash>>

(* finalize_execute, the last update: status eb_ready_to_upload. *)
FinalizeStatus(o) ==
    /\ pc[o] = "status"
    /\ \E store_error \in BOOLEAN :
         IF store_error
         THEN /\ HandleRaise(o, "StoreError", 1)
              /\ UNCHANGED <<auxvars, instances, args, max_tries, status, dbloc, fs, ncrash>>
         ELSE /\ status' = [status EXCEPT ![run_doc[o].number] = "eb_ready_to_upload"]
              /\ pc' = [pc EXCEPT ![o] = AfterRemove(o, 1)]
              /\ idx' = [idx EXCEPT ![o] = 1]
              /\ UNCHANGED <<auxvars, instances, args, max_tries, restrax, dbloc, fs, run_doc,
                             compress_docs, skip_docs, lost, histvars, ncrash>>

(* A remove_old_docs without the assertion on the location. *)
InPreProcessed_any(loc) == TRUE

(* remove_old_docs: assert "pre_processed" in loc *)
InPreProcessed(loc) == loc = "pre"

(* remove_old_docs, one doc: the assertion, then in production mode        *)
(* shutil.rmtree(loc), which raises when loc is absent and may raise on    *)
(* the way, leaving a part.                                                *)
RemoveDoc(o) ==
    /\ pc[o] = "remove"
    /\ idx[o] <= Len(compress_docs[o])
    /\ LET d == compress_docs[o][idx[o]]
           loc == d.location
       IN \E os_error \in BOOLEAN :
            IF ~InPreProcessed(loc)
               \/ (args.production /\ (~Exists(fs[d.u][loc]) \/ os_error))
            THEN /\ HandleRaise(o, IF ~InPreProcessed(loc) THEN "AssertionError" ELSE "OSError", 1)
                 /\ fs' = IF InPreProcessed(loc) /\ Exists(fs[d.u][loc]) /\ args.production
                          THEN [fs EXCEPT ![d.u][loc] = "part"] ELSE fs
                 /\ UNCHANGED <<auxvars, instances, args, max_tries, status, dbloc, ncrash>>
            ELSE /\ fs' = IF args.production THEN [fs EXCEPT ![d.u][loc] = "none"] ELSE fs
                 /\ pc' = [pc EXCEPT ![o] = AfterRemove(o, idx[o] + 1)]
                 /\ idx' = [idx EXCEPT ![o] = @ + 1]
                 /\ UNCHANGED <<auxvars, instances, args, max_tries, dbvars, run_doc, compress_docs,
                                skip_docs, lost, histvars, ncrash>>

(* handle_run returned: set_restrax_done, and the loop starts over. *)
SetDone(o) ==
    /\ pc[o] = "finished"
    /\ LET r == run_doc[o].number IN
       /\ restrax' = [restrax EXCEPT ![r] = IF args.production THEN DoneDoc(@) ELSE @]
       /\ last' = [run |-> r, op |-> "done", from |-> restrax[r].state,
                   to |-> "done", claimed |-> TRUE,
                   n_before |-> restrax[r].n_tries]
    /\ pc' = [pc EXCEPT ![o] = AfterLoop("idle")]
    /\ Forget(o)
    /\ UNCHANGED <<auxvars, instances, args, max_tries, status, dbloc, fs, nfail, nattempt,
                   escalations, ncrash>>

----------------------------------------------------------------------------
(* The process is killed (host reboot, out of memory): the store and the   *)
(* file system stay as they are; a rechunker that was writing leaves a     *)
(* truncated output directory.                                             *)

Working == {"found", "handle", "rechunk", "checks", "bypass", "finalize",
            "status", "remove", "finished"}

Crash(o) ==
    /\ pc[o] \in Working
    /\ ncrash < MaxCrashes
    /\ ncrash' = ncrash + 1
    /\ pc' = [pc EXCEPT ![o] = "dead"]
    /\ \E writing \in BOOLEAN :
         fs' = IF writing /\ pc[o] = "rechunk"
                  /\ Exists(fs[compress_docs[o][idx[o]].u][compress_docs[o][idx[o]].location])
               THEN [fs EXCEPT ![compress_docs[o][idx[o]].u]["out"] = "part"]
               ELSE fs
    /\ Forget(o)
    /\ UNCHANGED <<auxvars, instances, args, max_tries, dbvars, histvars>>

(* The process is started again: by the supervisor after it died, by the  *)
(* operator after a --process call has ended.                              *)
Restart(o) ==
    /\ pc[o] \in {"dead", "exited"}
    /\ pc' = [pc EXCEPT ![o] = "idle"]
    /\ UNCHANGED <<auxvars, instances, args, max_tries, dbvars, fs, localvars, histvars, ncrash>>

----------------------------------------------------------------------------

Next ==
    \/ \E o \in instances : FindWork(o)
    \/ \E o \in instances : FindWorkRaises(o)
    \/ \E o \in instances : NoWork(o)
    \/ \E o \in instances : WakeUp(o)
    \/ \E o \in instances : SetBusy(o)
    \/ \E o \in instances : HandleStart(o)
    \/ \E o \in instances : RechunkDoc(o)
    \/ \E o \in instances : DoChecks(o)
    \/ \E o \in instances : BypassDoc(o)
    \/ \E o \in instances : FinalizeDoc(o)
    \/ \E o \in instances : FinalizeStatus(o)
    \/ \E o \in instances : RemoveDoc(o)
    \/ \E o \in instances : SetDone(o)
    \/ \E o \in instances : Crash(o)
    \/ \E o \in instances : Restart(o)

Spec == Init /\ [][Next]_vars


----------------------------------------------------------------------------
(* Two orchestrator processes with the same hostname, on a clean file      *)
(* system with the default command line; bootstrax has finished Run 1 and  *)
(* is still working on the others.                                         *)

InitTwo ==
    /\ instances = {1, 2}
    /\ InitCommon({1})
    /\ args = Flags(FALSE, 1, FALSE)
    /\ max_tries = max_tries_default
    /\ fs = [u \in Units |-> CleanDirs]

SpecTwo == InitTwo /\ [][Next]_vars

----------------------------------------------------------------------------
(* Test mode (no --production): find_work is _find_testing_work.           *)

DryFlags(ignore_checks, max_threads, process, undying) ==
    [production |-> FALSE, ignore_checks |-> ignore_checks,
     max_threads |-> max_threads, undying |-> undying,
     bypass_mode |-> FALSE, process |-> process, process_given |-> process # 0,
     deep_compare |-> FALSE]

(* --process and --undying exclude each other; args.process is None        *)
(* (0 here) without --process.                                             *)
DryDeployments ==
    {DryFlags(FALSE, 2, 1, FALSE), DryFlags(FALSE, 1, 1, FALSE),
     DryFlags(TRUE, 1, 1, FALSE), DryFlags(FALSE, 2, 2, FALSE),
     DryFlags(FALSE, 1, 2, FALSE), DryFlags(FALSE, 2, NRuns, FALSE),
     DryFlags(FALSE, 2, 0, TRUE), DryFlags(FALSE, 2, 0, FALSE),
     WithProcess(DryFlags(FALSE, 2, 0, FALSE), 0)}

(* The folders of os.listdir(read_from) that _find_testing_work keeps: of  *)
(* the Run --process names, on the disk of this host, and without a folder *)
(* of that name in write_to.                                               *)
RECURSIVE TestingData(_)
TestingData(units) ==
    IF units = <<>> THEN <<>>
    ELSE (IF /\ UnitHost(Head(units)) = hostname
             /\ Exists(fs[Head(units)]["pre"])
             /\ ~Exists(fs[Head(units)][renamed_path("pre")])
          THEN <<[u |-> Head(units), location |-> "pre"]>> ELSE <<>>)
         \o TestingData(Tail(units))

(* int(self.process) with process None: TypeError, which leaves            *)
(* infinite_loop.                                                          *)
FindTestingWorkRaises(o) ==
    /\ pc[o] = "idle"
    /\ ~args.production
    /\ ~args.process_given
    /\ \E after \in AfterException : pc' = [pc EXCEPT ![o] = after]
    /\ UNCHANGED <<auxvars, instances, args, max_tries, dbvars, fs, localvars, histvars, ncrash>>

(* _find_testing_work returns the run document of Run --process with the   *)
(* folders as its data.                                                    *)
FindTestingWork(o) ==
    /\ pc[o] = "idle"
    /\ ~args.production
    /\ args.process_given
    /\ MayTry
    /\ TestingData(DataOf(args.process, 1)) # <<>>
    /\ run_doc' = [run_doc EXCEPT ![o] =
                     [number |-> args.process,
                      restrax |-> Projected(restrax[args.process], default_projection),
                      data |-> TestingData(DataOf(args.process, 1))]]
    /\ pc' = [pc EXCEPT ![o] = "found"]
    /\ UNCHANGED <<auxvars, instances, args, max_tries, dbvars, fs, compress_docs, skip_docs, idx,
                   lost, histvars, ncrash>>

(* _find_testing_work returns None: infinite_loop(close=True) returns.     *)
NoTestingWork(o) ==
    /\ pc[o] = "idle"
    /\ ~args.production
    /\ args.process_given
    /\ TestingData(DataOf(args.process, 1)) = <<>>
    /\ pc' = [pc EXCEPT ![o] = AfterLoop("nap")]
    /\ UNCHANGED <<auxvars, instances, args, max_tries, dbvars, fs, localvars, histvars, ncrash>>

InitDry ==
    /\ instances = {1}
    /\ args \in DryDeployments
    /\ max_tries \in MaxTriesSet
    /\ InitStore(Runs)

NextDry ==
    \/ \E o \in instances : FindTestingWork(o)
    \/ \E o \in instances : FindTestingWorkRaises(o)
    \/ \E o \in instances : NoTestingWork(o)
    \/ \E o \in instances : WakeUp(o)
    \/ \E o \in instances : SetBusy(o)
    \/ \E o \in instances : HandleStart(o)
    \/ \E o \in instances : RechunkDoc(o)
    \/ \E o \in instances : DoChecks(o)
    \/ \E o \in instances : BypassDoc(o)
    \/ \E o \in instances : RemoveDoc(o)
    \/ \E o \in instances : SetDone(o)
    \/ \E o \in instances : Crash(o)
    \/ \E o \in instances : Restart(o)

SpecDry == InitDry /\ [][NextDry]_vars

----------------------------------------------------------------------------
(* Production mode with and without --process, which excludes --undying.   *)

OneDeployments ==
    {Flags(FALSE, 2, FALSE), Flags(FALSE, 2, TRUE),
     WithProcess(Flags(FALSE, 2, FALSE), 0),
     WithProcess(Flags(FALSE, 2, FALSE), 1),
     WithProcess(Flags(FALSE, 1, FALSE), 2)}

InitOne ==
    /\ instances = {1}
    /\ args \in OneDeployments
    /\ max_tries = max_tries_default
    /\ InitStore(Runs)

SpecOne == InitOne /\ [][Next]_vars

----------------------------------------------------------------------------
(* One process with and without --deep_compare and --ignore_checks.        *)

StepsDeployments ==
    {Flags(TRUE, 2, FALSE),
     WithDeepCompare(Flags(FALSE, 2, FALSE)),
     WithDeepCompare(Flags(TRUE, 2, FALSE)),
     WithDeepCompare(Flags(FALSE, 1, TRUE))}

InitSteps ==
    /\ instances = {1}
    /\ args \in StepsDeployments
    /\ max_tries = max_tries_default
    /\ InitStore(Runs)

NextSteps ==
    \/ Next
    \/ \E o \in instances : ValidateData(o)

SpecSteps == InitSteps /\ [][NextSteps]_vars

----------------------------------------------------------------------------
(* Properties.                                                             *)

(* The steps between set_restrax_busy and set_restrax_done/_failed. *)
InFlight == {"handle", "rechunk", "checks", "validate", "bypass", "finalize", "status",
             "remove", "finished"}

(* C1: at most one claim. Two processes that hold the same Run are never   *)
(* both past set_restrax_busy with it: at most one transformation of a Run *)
(* is in flight.                                                           *)
C1_AtMostOneInFlight ==
    \A o1 \in instances, o2 \in instances :
        (o1 # o2 /\ pc[o1] \in InFlight /\ pc[o2] \in InFlight)
            => run_doc[o1].number # run_doc[o2].number

(* C2: every Run find_work returns has no restrax state or the state       *)
(* failed; a Run that is busy in the store is never returned.              *)
C2_FoundIsUnclaimedOrFailed ==
    \A o \in instances :
        pc[o] = "found" => restrax[run_doc[o].number].state \in {"none", "failed"}

(* All records of unit u are in one of its three directories. *)
HasData(u) == \E d \in Folders : Complete(fs[u][d])

(* C3: never lose the only copy. With checks enabled no step takes the     *)
(* last complete copy of a data unit away: a unit whose records are all in *)
(* the pre-processed, the output or the non-registered folder before a     *)
(* step has them in one of the three after it.                             *)
C3_NeverLoseOnlyCopy ==
    [][\A u \in Units : (~args.ignore_checks /\ HasData(u)) => HasData(u)']_vars

(* C3 witness: checks enabled, a Run failed an attempt and was tried       *)
(* again, and the pre-processed copy of a rechunked unit is removed while  *)
(* the output folder holds all its records.                                *)
C3_Witness ==
    /\ ~args.ignore_checks
    /\ \E u \in Units :
         /\ nattempt[UnitRun(u)] >= 1
         /\ fs[u]["pre"] = "none"
         /\ fs[u]["out"] = "re"

(* C4: retry ceiling. A Run find_work returns that was tried before has    *)
(* n_tries < max_tries in the store.                                       *)
C4_RetryCeiling ==
    \A o \in instances :
        (pc[o] = "found" /\ restrax[run_doc[o].number].state # "none")
            => restrax[run_doc[o].number].n_tries < max_tries

(* C5: retry escalation. A Run that failed max_tries attempts has produced *)
(* exactly one escalation, and a Run with fewer failed attempts none.      *)
C5_OneEscalation ==
    \A r \in Runs :
        /\ nattempt[r] >= max_tries => escalations[r] = 1
        /\ nattempt[r] < max_tries => escalations[r] = 0

(* C6 as stated: n_tries of a Run is the number of its failed attempts     *)
(* (it changes only in mark_failed, by one).                               *)
C6_TriesAreFailedAttempts ==
    \A r \in Runs : restrax[r].n_tries = nattempt[r]

(* C6 amended: n_tries of a Run is written only by claim and by            *)
(* mark_failed; each call of mark_failed increases it by exactly 1, and    *)
(* mark_done leaves it unchanged.                                          *)
C6_TriesWrittenByClaimAndFailed ==
    [][\A r \in Runs :
         /\ nfail'[r] # nfail[r]
              => restrax'[r].n_tries = restrax[r].n_tries + (nfail'[r] - nfail[r])
         /\ (nfail'[r] = nfail[r] /\ restrax'[r].n_tries # restrax[r].n_tries)
              => (last'.op = "busy" /\ last'.run = r /\ restrax'[r].state = "busy")
         /\ (last' # last /\ last'.op = "done" /\ last'.run = r)
              => restrax'[r].n_tries = restrax[r].n_tries]_vars

(* C6 witness: a Run failed, was claimed again and was marked done. *)
C6_Witness ==
    \E r \in Runs : nattempt[r] >= 1 /\ restrax[r].state = "done" /\ restrax[r].n_tries >= 1

(* C7: claim increments n_tries from its prior value: the restrax document *)
(* claim wrote has n_tries one above the n_tries the Run had before.       *)
C7_ClaimIncrements ==
    last.op = "busy"
        => /\ restrax[last.run].state = "busy"
           /\ restrax[last.run].started_processing
           /\ restrax[last.run].host = hostname
           /\ restrax[last.run].n_tries = last.n_before + 1

(* C8: a Run in state failed with n_tries < max_tries matches the query of *)
(* find_work for previously tried Runs.                                    *)
C8_FailedStaysEligible ==
    \A r \in Runs :
        (restrax[r].state = "failed" /\ restrax[r].n_tries < max_tries)
            => MatchesTried(r)

(* C9: the restrax state only moves none->busy, busy->done, busy->failed   *)
(* and failed->busy, and failed or done is only set after the claim of the *)
(* same attempt.                                                           *)
C9_StateMachine ==
    last.run # 0
        => /\ <<last.from, last.to>> \in
                {<<"none", "busy">>, <<"busy", "done">>, <<"busy", "failed">>,
                 <<"failed", "busy">>}
           /\ last.to \in {"done", "failed"} => last.claimed

(* C10: done is terminal for a single process. A Run that is done is never *)
(* held by the process after find_work, and no step changes its restrax    *)
(* document.                                                               *)
C10_DoneIsTerminal ==
    /\ [](\A o \in instances :
            pc[o] = "found" => restrax[run_doc[o].number].state # "done")
    /\ [][\A r \in Runs : restrax[r].state = "done" => restrax'[r] = restrax[r]]_vars

(* C10 witness: a Run is done, still matches the rest of the query of      *)
(* find_work, and find_work has since returned an older Run that was tried *)
(* before.                                                                 *)
C10_Witness ==
    \E r \in Runs :
        /\ restrax[r].state = "done"
        /\ MatchesBase(r)
        /\ pc[1] = "found"
        /\ run_doc[1].number < r
        /\ restrax[run_doc[1].number].state = "failed"

(* The units of a sequence of data docs. *)
UnitsOf(docs) == {docs[i].u : i \in 1..Len(docs)}

(* C11: cleanup scope. The cleanup step of a handled Run changes only the  *)
(* pre-processed directory of a unit of compress_docs that is not in       *)
(* skip_docs: no directory of a skip unit and no directory of the output   *)
(* or the non-registered folder is removed; and when handle_run has        *)
(* returned, the output directory of every unit of compress_docs exists.   *)
C11_CleanupScope ==
    /\ [][\A o \in instances :
            pc[o] = "remove" =>
                \A u \in Units : \A f \in Folders :
                    fs'[u][f] # fs[u][f] =>
                        /\ f = "pre"
                        /\ u \in UnitsOf(compress_docs[o])
                        /\ u \notin UnitsOf(skip_docs[o])]_vars
    /\ [](\A o \in instances :
            pc[o] = "finished" =>
                \A u \in UnitsOf(compress_docs[o]) : Exists(fs[u]["out"]))

(* C11 witness: a Run is done whose rechunked unit has left the            *)
(* pre-processed folder and whose moved unit is in the output folder.      *)
C11_Witness ==
    /\ restrax[1].state = "done"
    /\ fs[1]["pre"] = "none" /\ fs[1]["out"] = "re"
    /\ fs[2]["pre"] = "none" /\ fs[2]["out"] = "orig"

(* C12: bypass safety. When _bypass_for_data_doc of a skip unit finds the  *)
(* destination directory existing, then after it the non-registered folder *)
(* holds what the destination held, the data of the source is still in one *)
(* of the directories of the unit, a warning was sent, and no directory of *)
(* the unit that held data was overwritten.                                *)
C12_BypassQuarantines ==
    [][\A o \in instances :
         (pc[o] = "bypass" /\ ncrash' = ncrash) =>
            LET d == skip_docs[o][idx[o]]
                source == d.location
                dest == renamed_path(source)
            IN Exists(fs[d.u][dest]) =>
                 /\ fs'[d.u][non_registered_folder] = fs[d.u][dest]
                 /\ \E f \in Folders : fs'[d.u][f] = fs[d.u][source]
                 /\ BypassAlerts(fs, d) >= 1
                 /\ \A f \in Folders :
                       Exists(fs[d.u][f]) => \E g \in Folders : fs'[d.u][g] = fs[d.u][f]]_vars

(* C13: idempotent skip. The split of handle_run puts each data doc of     *)
(* this host on exactly one of compress_docs and skip_docs, on skip_docs   *)
(* exactly when should_skip_compression is true for it; the rechunking     *)
(* touches directories of units of compress_docs only, and the verbatim    *)
(* move directories of units of skip_docs only.                            *)
C13_SkipPartition ==
    [][\A o \in instances :
         /\ (pc[o] = "handle" /\ pc'[o] \in InFlight \ {"handle"}) =>
               LET r == run_doc[o].number
                   docs == _get_data_docs(run_doc[o].data)
                   cd == compress_docs'[o]
                   sd == skip_docs'[o]
               IN /\ UnitsOf(cd) \cup UnitsOf(sd) = UnitsOf(docs)
                  /\ UnitsOf(cd) \cap UnitsOf(sd) = {}
                  /\ Len(cd) + Len(sd) = Len(docs)
                  /\ \A i \in 1..Len(cd) : ~should_skip_compression(r, cd[i])
                  /\ \A i \in 1..Len(sd) : should_skip_compression(r, sd[i])
         /\ (pc[o] = "rechunk" /\ ncrash' = ncrash) =>
               \A u \in Units : fs'[u] # fs[u] =>
                   u \in UnitsOf(compress_docs[o]) \ UnitsOf(skip_docs[o])
         /\ (pc[o] = "bypass" /\ ncrash' = ncrash) =>
               \A u \in Units : fs'[u] # fs[u] =>
                   u \in UnitsOf(skip_docs[o]) \ UnitsOf(compress_docs[o])]_vars

(* C13 witness: a Run with a unit on each list, the one rechunked and the  *)
(* other moved.                                                            *)
C13_Witness ==
    /\ pc[1] = "finalize"
    /\ Len(compress_docs[1]) = 1 /\ Len(skip_docs[1]) = 1
    /\ fs[compress_docs[1][1].u]["out"] = "re"
    /\ fs[skip_docs[1][1].u]["out"] = "orig"
    /\ fs[skip_docs[1][1].u]["pre"] = "none"

----------------------------------------------------------------------------
(* The functions of the orchestrator that read no state of the loop, each  *)
(* evaluated on arguments drawn from bounded sets: Init draws the          *)
(* arguments into query, the action applies the function.                  *)

(* No process runs: the variables of the loop at rest. *)
Parked ==
    /\ instances = {}
    /\ args = Flags(FALSE, 2, FALSE)
    /\ max_tries = max_tries_default
    /\ status = [r \in Runs |-> "transferring"]
    /\ restrax = [r \in Runs |-> NoRestrax]
    /\ dbloc = [u \in Units |-> "pre"]
    /\ fs = [u \in Units |-> CleanDirs]
    /\ pc = [o \in Orchs |-> "off"]
    /\ run_doc = [o \in Orchs |-> NoRunDoc]
    /\ compress_docs = [o \in Orchs |-> <<>>]
    /\ skip_docs = [o \in Orchs |-> <<>>]
    /\ idx = [o \in Orchs |-> 0]
    /\ lost = [o \in Orchs |-> FALSE]
    /\ nfail = [r \in Runs |-> 0]
    /\ nattempt = [r \in Runs |-> 0]
    /\ escalations = [r \in Runs |-> 0]
    /\ ncrash = 0
    /\ last = NoLast

MaxChunks == 4      \* chunks in the metadata of a directory

kr83m == <<"k","r","8","3","m">>
tpc_pmtap == <<"t","p","c","_","p","m","t","a","p">>
events == <<"e","v","e","n","t","s">>
hitlets_nv == <<"h","i","t","l","e","t","s","_","n","v">>

(* run_doc["mode"] and data_doc["type"] of the evaluations. *)
QueryModes == {background, kr83m, pmtgain, tpc_pmtap, nVeto_LASER_calibration}
QueryTypes == {raw_records, records_nv, live_data, event_info, events, peaks, hitlets_nv}

InitShouldSkip ==
    \E b \in BOOLEAN, m \in QueryModes, t \in QueryTypes, n \in 0..MaxChunks :
        query = [fn |-> "should_skip_compression", done |-> FALSE,
                 bypass_mode |-> b, run_mode |-> m, data_type |-> t, n_chunks |-> n,
                 out |-> FALSE]

CallShouldSkip ==
    /\ query.fn = "should_skip_compression"
    /\ ~query.done
    /\ query' = [query EXCEPT !.done = TRUE,
                               !.out = ShouldSkip(query.bypass_mode, query.run_mode,
                                                  query.data_type, query.n_chunks)]
    /\ UNCHANGED <<loopvars, pool>>

----------------------------------------------------------------------------
(* get_compressor_and_size                                                 *)

is_heavy_rate_mbs == 50
missing_avg_rate == 100     \* detector.get("avg", 100)
raw_target_size_default == 5000
other_target_size == 1500   \* target size when the table gives None
blosc_max_size == 1500      \* largest target size left to blosc
NoSize == 0 - 1             \* None as a target size
NoAvg == 0 - 1              \* a detector of run_doc["rate"] without "avg"

peak_glob == <<"p","e","a","k","*">>
s_glob == <<"*","s">>
_raw_record_compressor_light == <<"_","r","a","w","_","r","e","c","o","r","d","_","c","o","m","p","r","e","s","s","o","r","_","l","i","g","h","t">>
_raw_record_compressor_heavy == <<"_","r","a","w","_","r","e","c","o","r","d","_","c","o","m","p","r","e","s","s","o","r","_","h","e","a","v","y">>
_other == <<"_","o","t","h","e","r">>
_raw_records == <<"_","r","a","w","_","r","e","c","o","r","d","s">>

(* A mapping as the sequence of its items, in the order of the table. *)
Item(k, v) == [key |-> k, value |-> v]

(* The class attributes target_compressor and target_size. *)
target_compressor ==
    << Item(peak_glob, "zstd"), Item(_raw_record_compressor_light, "bz2"),
       Item(_raw_record_compressor_heavy, "zstd"), Item(_other, "None") >>
target_size ==
    << Item(peak_glob, 1500), Item(_other, 1500), Item(_raw_records, 5000) >>

(* Tables as overwrite_settings may set them from the restrax_config       *)
(* document: blosc everywhere with sizes above its limit, two globs that   *)
(* both match peaks; and tables without default entries.                   *)
blosc_compressor ==
    << Item(s_glob, "lz4"), Item(peak_glob, "blosc"),
       Item(_raw_record_compressor_light, "blosc"),
       Item(_raw_record_compressor_heavy, "blosc"), Item(_other, "blosc") >>
blosc_size ==
    << Item(s_glob, 1000), Item(peak_glob, 2000), Item(_other, 3000),
       Item(_raw_records, 5000) >>
bare_compressor ==
    << Item(_raw_record_compressor_light, "bz2"),
       Item(_raw_record_compressor_heavy, "blosc") >>
bare_size == << Item(events, 2000) >>

Configs ==
    { [target_compressor |-> target_compressor, target_size |-> target_size],
      [target_compressor |-> blosc_compressor, target_size |-> blosc_size],
      [target_compressor |-> bare_compressor, target_size |-> bare_size] }

(* some_dict.get(key, default) *)
RECURSIVE DictGet(_, _, _)
DictGet(some_dict, key, default) ==
    IF some_dict = <<>> THEN default
    ELSE IF Head(some_dict).key = key THEN Head(some_dict).value
    ELSE DictGet(Tail(some_dict), key, default)

(* The loop of _fnmatch_from_doc over items: fnmatch.fnmatch(target,       *)
(* target_key), the key of the table as the name and target_key as the     *)
(* pattern.                                                                *)
RECURSIVE FnmatchLoop(_, _, _)
FnmatchLoop(items, target_key, default) ==
    IF items = <<>> THEN default
    ELSE IF fnmatch(Head(items).key, target_key) THEN Head(items).value
    ELSE FnmatchLoop(Tail(items), target_key, default)

_fnmatch_from_doc(some_dict, target_key, none) ==
    FnmatchLoop(some_dict, target_key, DictGet(some_dict, _other, none))

(* sum(detector.get("avg", 100) for detector in                            *)
(* run_doc.get("rate", {"none": {}}).values())                             *)
RECURSIVE SumAvg(_)
SumAvg(detectors) ==
    IF detectors = <<>> THEN 0
    ELSE (IF Head(detectors) = NoAvg THEN missing_avg_rate ELSE Head(detectors))
         + SumAvg(Tail(detectors))

RateOf(rd) == IF rd.has_rate THEN SumAvg(rd.rate) ELSE SumAvg(<<NoAvg>>)

(* The end of get_compressor_and_size: blosc with a target size above its  *)
(* limit gets the limit and one log_warning.                               *)
ClampSize_none(compressor, target_size_mb) ==
    [target_size_mb |-> target_size_mb, warnings |-> 0]

ClampSize(compressor, target_size_mb) ==
    IF compressor = "blosc" /\ target_size_mb > blosc_max_size
    THEN [target_size_mb |-> blosc_max_size, warnings |-> 1]
    ELSE [target_size_mb |-> target_size_mb, warnings |-> 0]

(* get_compressor_and_size(run_doc, data_doc) under the tables cfg and     *)
(* max_tries mt: compressor, target size and the warnings sent.            *)
get_compressor_and_size(rd, dtype, cfg, mt) ==
    LET _go_fast ==
            \/ RateOf(rd) > is_heavy_rate_mbs
            \/ (IF rd.restrax.present THEN rd.restrax.n_tries ELSE 0) > mt \div 2
        compressor ==
            IF dtype \in raw_record_types
            THEN IF _go_fast
                 THEN DictGet(cfg.target_compressor, _raw_record_compressor_heavy, "bz2")
                 ELSE DictGet(cfg.target_compressor, _raw_record_compressor_light, "zstd")
            ELSE _fnmatch_from_doc(cfg.target_compressor, dtype, "None")
        found_size == _fnmatch_from_doc(cfg.target_size, dtype, NoSize)
        target_size_mb ==
            IF dtype \in raw_record_types
            THEN DictGet(cfg.target_size, _raw_records, raw_target_size_default)
            ELSE IF found_size = NoSize THEN other_target_size ELSE found_size
        clamped == ClampSize(compressor, target_size_mb)
    IN [compressor |-> compressor,
        target_size_mb |-> clamped.target_size_mb,
        selected_size |-> target_size_mb,
        warnings |-> clamped.warnings]

MaxStoredTries == 3     \* restrax.n_tries in the store at the evaluation

(* run_doc["rate"]: absent, or the "avg" of each detector. *)
QueryRates ==
    { [has_rate |-> FALSE, rate |-> <<>>],
      [has_rate |-> TRUE, rate |-> <<10, 20>>],
      [has_rate |-> TRUE, rate |-> <<50>>],
      [has_rate |-> TRUE, rate |-> <<30, 21>>],
      [has_rate |-> TRUE, rate |-> <<NoAvg, 10>>] }

(* The run document find_work hands on: the restrax field of the stored    *)
(* document under the default projection.                                  *)
InitPolicy ==
    \E t \in QueryTypes, c \in Configs, rt \in QueryRates,
       n \in 0..MaxStoredTries, mt \in {1, 2, max_tries_default} :
        query = [fn |-> "get_compressor_and_size", done |-> FALSE,
                 data_type |-> t, cfg |-> c, n_tries |-> n, max_tries |-> mt,
                 run_doc |-> [restrax |-> Projected([state |-> IF n = 0 THEN "none" ELSE "busy",
                                                      n_tries |-> n], default_projection),
                              has_rate |-> rt.has_rate, rate |-> rt.rate],
                 out |-> [compressor |-> "", target_size_mb |-> 0, selected_size |-> 0,
                          warnings |-> 0]]

CallPolicy ==
    /\ query.fn = "get_compressor_and_size"
    /\ ~query.done
    /\ query' = [query EXCEPT !.done = TRUE,
                               !.out = get_compressor_and_size(query.run_doc, query.data_type,
                                                               query.cfg, query.max_tries)]
    /\ UNCHANGED <<loopvars, pool>>

----------------------------------------------------------------------------
(* do_checks on the metadata of the folders                                *)

MaxRecords == 2         \* chunk["n"] is in 0..MaxRecords
NoFilesize == 0 - 1     \* a chunk of the metadata without "filesize"
some_filesize == 7

RECURSIVE SumN(_)
SumN(chunks) == IF chunks = <<>> THEN 0 ELSE Head(chunks).n + SumN(Tail(chunks))

SeqsUpTo2(S) == {<<>>} \cup {<<a>> : a \in S} \cup {<<a, b>> : a \in S, b \in S}

Chunk(n, filesize) == [n |-> n, filesize |-> filesize]

(* chunk.get("n", 0) and not chunk.get("filesize", True) *)
FailedToWrite(chunk) == chunk.n # 0 /\ chunk.filesize = 0

(* The errors do_checks collects for one data document whose folders both  *)
(* have metadata.                                                          *)
DocErrors_no_sum(doc) ==
    \/ \E i \in 1..Len(doc.md_out) : FailedToWrite(doc.md_out[i])
    \/ doc.exception

DocErrors(doc) ==
    \/ ~doc.in_exists
    \/ ~doc.out_exists
    \/ \E i \in 1..Len(doc.md_out) : FailedToWrite(doc.md_out[i])
    \/ doc.exception
    \/ SumN(doc.md_in) # SumN(doc.md_out)

(* do_checks(data_docs): get_metadata of a folder that does not exist      *)
(* raises; otherwise ValueError when any error was collected.              *)
do_checks(ignore_checks, data_docs) ==
    IF ignore_checks THEN "returned"
    ELSE IF \E i \in 1..Len(data_docs) :
                ~data_docs[i].in_exists \/ ~data_docs[i].out_exists
         THEN "raised"
    ELSE IF \E i \in 1..Len(data_docs) : DocErrors(data_docs[i])
         THEN "raised"
    ELSE "returned"

(* The entries do_checks appends to errors for one data document.          *)
ErrorCount(doc) ==
    (IF ~doc.in_exists THEN 1 ELSE 0)
    + (IF ~doc.out_exists THEN 1 ELSE 0)
    + (IF \E i \in 1..Len(doc.md_out) : FailedToWrite(doc.md_out[i]) THEN 1 ELSE 0)
    + (IF doc.exception THEN 1 ELSE 0)
    + (IF SumN(doc.md_in) # SumN(doc.md_out) THEN 1 ELSE 0)

(* The loop of do_checks from document i on, with `errors` entries         *)
(* collected so far: the exception that ends the call ("" when it          *)
(* returns), the number of documents whose checks were all made, and the   *)
(* number of entries of errors. get_metadata of a folder that does not     *)
(* exist raises where it is called, inside the loop.                       *)
RECURSIVE CheckLoop(_, _, _)
CheckLoop(data_docs, i, errors) ==
    IF i > Len(data_docs)
    THEN [exc |-> IF errors > 0 THEN "ValueError" ELSE "",
          seen |-> Len(data_docs), errors |-> errors]
    ELSE IF ~data_docs[i].in_exists \/ ~data_docs[i].out_exists
    THEN [exc |-> "get_metadata", seen |-> i - 1,
          errors |-> errors + (IF ~data_docs[i].in_exists THEN 1 ELSE 0)
                            + (IF ~data_docs[i].out_exists THEN 1 ELSE 0)]
    ELSE CheckLoop(data_docs, i + 1, errors + ErrorCount(data_docs[i]))

(* A source folder and the folder the rechunker wrote for it; a folder     *)
(* that does not exist has no metadata.                                    *)
CheckedDocs ==
    { [in_exists |-> ie, out_exists |-> oe, md_in |-> mi, md_out |-> mo, exception |-> ex] :
        ie \in BOOLEAN, oe \in BOOLEAN, ex \in BOOLEAN,
        mi \in SeqsUpTo2({Chunk(n, some_filesize) : n \in 0..MaxRecords}),
        mo \in SeqsUpTo2({Chunk(n, f) : n \in 0..MaxRecords,
                                         f \in {NoFilesize, 0, some_filesize}}) }

WellFormedDoc(doc) ==
    /\ ~doc.in_exists => doc.md_in = <<>>
    /\ ~doc.out_exists => (doc.md_out = <<>> /\ ~doc.exception)

(* The other data documents of the call: one that passes, one truncated,   *)
(* one with an exception in its metadata, or none.                         *)
OtherDocs ==
    { <<>>,
      << [in_exists |-> TRUE, out_exists |-> TRUE, exception |-> FALSE,
          md_in |-> <<Chunk(1, some_filesize), Chunk(1, some_filesize)>>,
          md_out |-> <<Chunk(2, NoFilesize)>>] >>,
      << [in_exists |-> TRUE, out_exists |-> TRUE, exception |-> FALSE,
          md_in |-> <<Chunk(2, some_filesize)>>,
          md_out |-> <<Chunk(1, some_filesize)>>] >>,
      << [in_exists |-> TRUE, out_exists |-> TRUE, exception |-> TRUE,
          md_in |-> <<Chunk(1, some_filesize)>>,
          md_out |-> <<Chunk(1, some_filesize)>>] >> }

InitDoChecks ==
    \E ic \in BOOLEAN, doc \in {d \in CheckedDocs : WellFormedDoc(d)}, rest \in OtherDocs :
        query = [fn |-> "do_checks", done |-> FALSE, ignore_checks |-> ic,
                 data_docs |-> <<doc>> \o rest, out |-> "",
                 loop |-> [exc |-> "", seen |-> 0, errors |-> 0]]

CallDoChecks ==
    /\ query.fn = "do_checks"
    /\ ~query.done
    /\ query' = [query EXCEPT !.done = TRUE,
                               !.out = do_checks(query.ignore_checks, query.data_docs),
                               !.loop = IF query.ignore_checks THEN @
                                        ELSE CheckLoop(query.data_docs, 1, 0)]
    /\ UNCHANGED <<loopvars, pool>>

----------------------------------------------------------------------------
(* _validate_data_per_doc and _get_data_from_dir: what is loaded and       *)
(* compared. Sizes are in units of 10^6 bytes and record counts in units   *)
(* of 10^6 records, so that itemsize * data_len is the footprint in MB.    *)

large_data_compare_threshold == 5000    \* int(5e9) bytes
max_compare_buffer_mb == 5000
time_itemsize == 8      \* np.zeros(1, dtype of the field "time").nbytes
MaxDataLen == 6         \* sum of chunk["n"], in 10^6 records

(* A loader that sizes its buffer for all fields whatever it keeps. *)
ResItemsize_all(itemsize, keep_column) == itemsize

(* np.zeros(1, dtype=res_dtype).nbytes: the fields of keep_column, or all. *)
ResItemsize(itemsize, keep_column) ==
    IF keep_column = "time" THEN time_itemsize ELSE itemsize

(* _get_data_from_dir(folder, keep_column): _compare_sum after the test of *)
(* the memory footprint against the ceiling.                               *)
CompareSum(data_len, itemsize, keep_column, ceiling) ==
    ResItemsize(itemsize, keep_column) * data_len > ceiling

(* _validate_data_per_doc: keep_column from is_large_dset, then what       *)
(* _get_data_from_dir does with the source directory.                      *)
_validate_data_per_doc(data_len, itemsize, threshold, ceiling) ==
    LET is_large_dset == itemsize * data_len > threshold
        keep_column == IF is_large_dset THEN "time" ELSE "None"
    IN [keep_column |-> keep_column,
        _compare_sum |-> CompareSum(data_len, itemsize, keep_column, ceiling)]

(* The dataset (metadata nbytes = itemsize * n) and the two settings, the  *)
(* class defaults or values set by overwrite_settings.                     *)
InitValidate ==
    \E n \in 0..MaxDataLen, isz \in {time_itemsize, 16},
       thr \in {20, 40, large_data_compare_threshold},
       ceil \in {10, 20, 40, max_compare_buffer_mb} :
        query = [fn |-> "_validate_data_per_doc", done |-> FALSE,
                 data_len |-> n, itemsize |-> isz, threshold |-> thr, ceiling |-> ceil,
                 out |-> [keep_column |-> "", _compare_sum |-> FALSE]]

CallValidate ==
    /\ query.fn = "_validate_data_per_doc"
    /\ ~query.done
    /\ query' = [query EXCEPT !.done = TRUE,
                               !.out = _validate_data_per_doc(query.data_len, query.itemsize,
                                                              query.threshold, query.ceiling)]
    /\ UNCHANGED <<loopvars, pool>>

InitFn ==
    /\ Parked
    /\ pool = NoPool
    /\ (InitShouldSkip \/ InitPolicy \/ InitDoChecks \/ InitValidate)

NextFn ==
    \/ CallShouldSkip
    \/ CallPolicy
    \/ CallDoChecks
    \/ CallValidate

SpecFn == InitFn /\ [][NextFn]_vars

----------------------------------------------------------------------------
(* rechunk_docs: one call over data_docs 1..docs with max_threads.         *)
(* started is the number of documents taken from the list, alive the       *)
(* documents whose _rechunk_per_doc is running (in a thread, or in the     *)
(* caller when max_threads <= 1), raised those whose call raised.          *)

MaxThreads == 3
MaxDocs == 4

(* The condition of the loop of _sleep_while_n_threads_alive(threads, n). *)
StillSleeping_never(alive, n) == FALSE

StillSleeping(alive, n) == Cardinality(alive) > n

InitPool ==
    /\ Parked
    /\ query = NoQuery
    /\ \E m \in 0..MaxThreads, n \in 0..MaxDocs :
            pool = [max_threads |-> m, docs |-> n, started |-> 0, alive |-> {},
                    raised |-> {}, pc |-> "loop"]

(* threads branch: the nap loop has ended, thread.start(), threads.append *)
StartThread ==
    /\ pool.pc = "loop"
    /\ pool.max_threads > 1
    /\ pool.started < pool.docs
    /\ ~StillSleeping(pool.alive, pool.max_threads - 1)
    /\ pool' = [pool EXCEPT !.started = @ + 1, !.alive = @ \cup {pool.started + 1}]
    /\ UNCHANGED <<loopvars, query>>

(* A thread ends: _rechunk_per_doc returned, or raised inside the thread. *)
ThreadEnds ==
    /\ pool.max_threads > 1
    /\ \E t \in pool.alive, ok \in BOOLEAN :
            pool' = [pool EXCEPT !.alive = @ \ {t},
                                 !.raised = IF ok THEN @ ELSE @ \cup {t}]
    /\ UNCHANGED <<loopvars, query>>

(* A rechunk_docs that returns after the last thread.start(). *)
JoinThreads_at_once ==
    /\ pool.pc = "loop"
    /\ pool.max_threads > 1
    /\ pool.started = pool.docs
    /\ pool' = [pool EXCEPT !.pc = "returned"]
    /\ UNCHANGED <<loopvars, query>>

(* _sleep_while_n_threads_alive(threads, 0) after the loop *)
JoinThreads ==
    /\ pool.pc = "loop"
    /\ pool.max_threads > 1
    /\ pool.started = pool.docs
    /\ ~StillSleeping(pool.alive, 0)
    /\ pool' = [pool EXCEPT !.pc = "returned"]
    /\ UNCHANGED <<loopvars, query>>

(* sequential branch: the caller enters _rechunk_per_doc for the next doc *)
SeqStart ==
    /\ pool.pc = "loop"
    /\ pool.max_threads <= 1
    /\ pool.started < pool.docs
    /\ pool.alive = {}
    /\ pool' = [pool EXCEPT !.started = @ + 1, !.alive = {pool.started + 1}]
    /\ UNCHANGED <<loopvars, query>>

(* sequential branch: the call returns, or raises out of rechunk_docs *)
SeqEnd ==
    /\ pool.pc = "loop"
    /\ pool.max_threads <= 1
    /\ \E t \in pool.alive, ok \in BOOLEAN :
            pool' = [pool EXCEPT !.alive = {},
                                 !.raised = IF ok THEN @ ELSE @ \cup {t},
                                 !.pc = IF ok THEN @ ELSE "raised"]
    /\ UNCHANGED <<loopvars, query>>

SeqReturn ==
    /\ pool.pc = "loop"
    /\ pool.max_threads <= 1
    /\ pool.started = pool.docs
    /\ pool.alive = {}
    /\ pool' = [pool EXCEPT !.pc = "returned"]
    /\ UNCHANGED <<loopvars, query>>

NextPool ==
    \/ StartThread
    \/ ThreadEnds
    \/ JoinThreads
    \/ SeqStart
    \/ SeqEnd
    \/ SeqReturn

SpecPool == InitPool /\ [][NextPool]_vars

(* C14: should_skip_compression returns true exactly when bypass mode is   *)
(* on, or the mode of the Run contains an entry of exclude_modes, or the   *)
(* type is live_data, or the type matches a glob of skip_compression, or   *)
(* the unit has at most recompress_min_chunks chunks and its type is not a *)
(* raw record type.                                                        *)
C14_ShouldSkipCases ==
    (query.fn = "should_skip_compression" /\ query.done) =>
        LET a == query.bypass_mode
            b == \E m \in exclude_modes : IsSubstring(m, query.run_mode)
            c == query.data_type = live_data
            d == \E g \in skip_compression : fnmatch(query.data_type, g)
            e == query.n_chunks <= recompress_min_chunks
                 /\ query.data_type \notin raw_record_types
        IN query.out = (a \/ b \/ c \/ d \/ e)

(* C14 witness: peaks of exactly recompress_min_chunks chunks in a         *)
(* background Run, no bypass: skipped for its chunk count alone.           *)
C14_Witness ==
    /\ query.fn = "should_skip_compression" /\ query.done
    /\ ~query.bypass_mode /\ query.run_mode = background
    /\ query.data_type = peaks /\ query.n_chunks = recompress_min_chunks
    /\ query.out

(* C15: for a unit whose type is not a raw family, get_compressor_and_size *)
(* selects the compressor and the target size of the first entry of the    *)
(* configured table, in table order, whose glob matches the type, and the  *)
(* _other entry when none matches; peaks gets the peak* entry.             *)
C15_FirstMatchingGlob ==
    LET Hits(tbl, t) == {i \in 1..Len(tbl) : fnmatch(t, tbl[i].key)}
        First(tbl, t, none) ==
            IF Hits(tbl, t) = {} THEN DictGet(tbl, _other, none)
            ELSE tbl[CHOOSE i \in Hits(tbl, t) : \A j \in Hits(tbl, t) : i <= j].value
        size == First(query.cfg.target_size, query.data_type, NoSize)
    IN (query.fn = "get_compressor_and_size" /\ query.done
            /\ query.data_type \notin raw_record_types)
       => /\ query.out.compressor
                = First(query.cfg.target_compressor, query.data_type, "None")
          /\ query.out.selected_size
                = IF size = NoSize THEN other_target_size ELSE size

(* C16: for a unit of a raw family the target size is the raw value of the *)
(* table, and the _raw_record_compressor_heavy entry is selected exactly   *)
(* when the detector rates of the run sum to more than is_heavy_rate_mbs   *)
(* or the n_tries stored for the run is above max_tries / 2; otherwise the *)
(* _raw_record_compressor_light entry is selected.                         *)
C16_RawFamilies ==
    LET rd == query.run_doc
        heavy == \/ SumAvg(rd.rate) > is_heavy_rate_mbs
                 \/ 2 * query.n_tries > query.max_tries
    IN (query.fn = "get_compressor_and_size" /\ query.done
            /\ query.data_type \in raw_record_types
            /\ rd.has_rate /\ \A i \in 1..Len(rd.rate) : rd.rate[i] # NoAvg)
       => /\ query.out.selected_size
                = DictGet(query.cfg.target_size, _raw_records, raw_target_size_default)
          /\ query.out.compressor
                = IF heavy
                  THEN DictGet(query.cfg.target_compressor, _raw_record_compressor_heavy, "bz2")
                  ELSE DictGet(query.cfg.target_compressor, _raw_record_compressor_light, "zstd")

(* C17: get_compressor_and_size never returns blosc with a target size     *)
(* above blosc_max_size; when the selected size was above it, it returns   *)
(* blosc_max_size and has sent one warning.                                *)
C17_SafetyClamp ==
    (query.fn = "get_compressor_and_size" /\ query.done)
    => /\ ~(query.out.compressor = "blosc" /\ query.out.target_size_mb > blosc_max_size)
       /\ (query.out.compressor = "blosc" /\ query.out.selected_size > blosc_max_size)
            => (query.out.target_size_mb = blosc_max_size /\ query.out.warnings = 1)
       /\ ~(query.out.compressor = "blosc" /\ query.out.selected_size > blosc_max_size)
            => (query.out.target_size_mb = query.out.selected_size /\ query.out.warnings = 0)

C17_Witness ==
    /\ query.fn = "get_compressor_and_size" /\ query.done
    /\ query.out.compressor = "blosc"
    /\ query.out.selected_size > blosc_max_size
    /\ query.out.target_size_mb = blosc_max_size
    /\ query.out.warnings = 1
    /\ query.data_type \notin raw_record_types


(* C18: during rechunk_docs with max_threads > 1 the number of running     *)
(* transforms never exceeds max_threads and a document is admitted only    *)
(* when fewer than max_threads are running; with max_threads <= 1 at most  *)
(* one transform is running at any time.                                   *)
C18_BoundedConcurrency ==
    /\ [](/\ pool.max_threads > 1 => Cardinality(pool.alive) <= pool.max_threads
          /\ pool.max_threads <= 1 => Cardinality(pool.alive) <= 1)
    /\ [][(pool.max_threads > 1 /\ pool'.started > pool.started)
            => Cardinality(pool.alive) < pool.max_threads]_vars

C18_Witness ==
    /\ pool.max_threads = 2
    /\ Cardinality(pool.alive) = 2
    /\ pool.started = 3
    /\ pool.docs = MaxDocs


(* C19: with checks enabled, when do_checks returns, for every data        *)
(* document the source and the destination exist, the record counts of the *)
(* destination chunks sum to the sum over the source chunks, no            *)
(* destination chunk has records and a falsy file size, and the            *)
(* destination metadata has no exception; a destination with fewer         *)
(* records than its source makes do_checks raise.                          *)
C19_RecordCountConservation ==
    LET docs == query.data_docs
    IN (query.fn = "do_checks" /\ query.done /\ ~query.ignore_checks)
       => /\ query.out = "returned"
                => \A i \in 1..Len(docs) :
                      /\ docs[i].in_exists /\ docs[i].out_exists
                      /\ SumN(docs[i].md_out) = SumN(docs[i].md_in)
                      /\ \A c \in 1..Len(docs[i].md_out) :
                            ~(docs[i].md_out[c].n > 0 /\ docs[i].md_out[c].filesize = 0)
                      /\ ~docs[i].exception
          /\ (\E i \in 1..Len(docs) : SumN(docs[i].md_out) < SumN(docs[i].md_in))
                => query.out = "raised"

C19_Witness ==
    /\ query.fn = "do_checks" /\ query.done /\ ~query.ignore_checks
    /\ query.out = "returned"
    /\ Len(query.data_docs) = 2
    /\ Len(query.data_docs[1].md_in) = 2
    /\ Len(query.data_docs[1].md_out) = 1
    /\ SumN(query.data_docs[1].md_out) = MaxRecords
    /\ query.data_docs[1].md_out[1].filesize = NoFilesize


(* C20: in test mode no step of the orchestrator (set_restrax_busy,        *)
(* set_restrax_done, set_restrax_failed, finalize_execute, the move of a   *)
(* skip unit, remove_old_docs) changes a Run document of the store, and no *)
(* directory of the input folder is renamed or removed.                    *)
C20_DryRunWritesNothing ==
    [][~args.production
        => /\ restrax' = restrax
           /\ status' = status
           /\ dbloc' = dbloc
           /\ \A u \in Units : fs'[u]["pre"] = fs[u]["pre"]]_vars

C20_Witness ==
    /\ ~args.production
    /\ pc[1] = "exited"
    /\ last.op = "done" /\ last.run = 1
    /\ nfail[1] > 0
    /\ fs[1]["pre"] = "orig" /\ fs[1]["out"] = "re"
    /\ fs[2]["pre"] = "orig" /\ fs[2]["out"] = "none"
    /\ restrax[1] = NoRestrax
    /\ status[1] = "eb_finished_pre"


(* C21: failure recording. No exception of a step of handle_run is left    *)
(* behind while the processing of the Run goes on, and the step in which   *)
(* an exception leaves handle_run stores the state failed with the text of *)
(* the exception as reason for that Run, without set_restrax_done.         *)
C21_FailureRecorded ==
    /\ [](\A o \in instances : ~lost[o])
    /\ [][\A r \in Runs :
            nattempt'[r] > nattempt[r]
            => /\ restrax'[r].state = "failed"
               /\ restrax'[r].reason # ""
               /\ last'.op = "failed" /\ last'.run = r]_vars


(* C22: with --undying no exception that leaves infinite_loop ends the     *)
(* process, whatever fails while main reports it; without --undying the    *)
(* exception ends the process.                                             *)
C22_UndyingNeverDies ==
    [][\A o \in instances :
         (pc[o] # "dead" /\ pc'[o] = "dead" /\ ncrash' = ncrash) => ~args.undying]_vars


(* C23: a process started with --process never goes back to find_work     *)
(* after its first pass through the loop and never sleeps: it ends when    *)
(* the Run is done, has failed, or was not found. A process started        *)
(* without --process never leaves the loop on its own and takes a nap when *)
(* find_work returns None.                                                 *)
C23_SingleRunTerminates ==
    /\ [][\A o \in instances :
            args.process_given
            => /\ (pc'[o] = "idle" /\ pc[o] # "idle") => pc[o] \in {"dead", "exited"}
               /\ pc'[o] # "nap"]_vars
    /\ [](\A o \in instances : ~args.process_given => pc[o] # "exited")
    /\ [][\A o \in instances :
            (~args.process_given /\ pc[o] = "idle" /\ FoundRun = 0 /\ pc'[o] # "idle")
            => pc'[o] = "nap"]_vars


(* C24: the deep validation compares only sums of fields only for a        *)
(* dataset that it already compares on the field time alone and whose      *)
(* field time alone is above the memory ceiling.                           *)
C24_DegradationOrder ==
    (query.fn = "_validate_data_per_doc" /\ query.done /\ query.out._compare_sum)
    => /\ query.out.keep_column = "time"
       /\ time_itemsize * query.data_len > query.ceiling

(* C24 amended: only time is compared exactly for a dataset above the      *)
(* single-field threshold; sums are compared exactly when what is loaded   *)
(* (time, or all fields) is above the memory ceiling; and when the ceiling *)
(* is not below the threshold, sums are compared only for a dataset that   *)
(* is compared on time alone.                                              *)
C24_DegradationOrderAmended ==
    (query.fn = "_validate_data_per_doc" /\ query.done)
    => LET nbytes == query.itemsize * query.data_len
           time == query.out.keep_column = "time"
       IN /\ time <=> nbytes > query.threshold
          /\ query.out._compare_sum
                <=> (IF time THEN time_itemsize * query.data_len ELSE nbytes) > query.ceiling
          /\ (query.ceiling >= query.threshold /\ query.out._compare_sum) => time

C24_Witness ==
    /\ query.fn = "_validate_data_per_doc" /\ query.done
    /\ query.ceiling >= query.threshold
    /\ query.out._compare_sum
    /\ query.out.keep_column = "time"
    /\ query.itemsize > time_itemsize

----------------------------------------------------------------------------
(* CorrectionsManagementServices.get_pmt_gains and its local cache.        *)
(* A gain array is a sequence of NPmts values in double precision: 1 is    *)
(* also a single precision value, 3 stands for a double that is not and    *)
(* that np.array(..., dtype=np.float32) rounds to 2, NaN is not-a-number.  *)

NPmts == 2          \* channels of a detector
MaxCalls == 3       \* calls of get_pmt_gains in one history

NaN == 0 - 1

GainValues == {NaN, 1, 3}

(* The gain arrays tried: the same value in every channel, and arrays     *)
(* whose first or last channel differs from the others.                    *)
Gains ==
    {[i \in 1..NPmts |-> v] : v \in GainValues}
    \cup {[i \in 1..NPmts |-> IF i = 1 THEN NaN ELSE 1],
          [i \in 1..NPmts |-> IF i = 1 THEN 3 ELSE 1],
          [i \in 1..NPmts |-> IF i = NPmts THEN NaN ELSE 3]}

as_gain_dtype(to_pe) == [i \in DOMAIN to_pe |-> IF to_pe[i] = 3 THEN 2 ELSE to_pe[i]]

isnan_all(to_pe) == \A i \in DOMAIN to_pe : to_pe[i] = NaN

isnan_any_never(to_pe) == FALSE

isnan_any(to_pe) == \E i \in DOMAIN to_pe : to_pe[i] = NaN

to_pe_model == <<"t","o","_","p","e","_","m","o","d","e","l">>

ONLINE == <<"O","N","L","I","N","E">>

v1 == <<"v","1">>

cacheable_versions == {ONLINE}

GainRunIds == {<<"1">>, <<"2">>}

GainModelTypes == {to_pe_model, <<"g","a","i","n">>}

GainVersions == {ONLINE, v1}

cacheable_naming(run_id, model_type, version) ==
    <<"./resource_cache/">> \o run_id \o <<"_">> \o model_type \o <<"_">>
        \o version \o <<".npy">>

CacheNames ==
    {cacheable_naming(r, m, v) : r \in GainRunIds, m \in {to_pe_model},
                                 v \in GainVersions}

NoFile == <<>>

NoCacheName == <<>>

(* straxen.get_resource(cache_name, fmt='npy'): the array of the file, or  *)
(* FileNotFoundError (here NoFile) when there is no such file.             *)
get_resource(cache, cache_name) == cache[cache_name]

(* The final `np.save` of get_pmt_gains.                                   *)
SaveGains_overwrite(cache, cache_name, cacheable, to_pe) ==
    IF cache_name # NoCacheName /\ cacheable
    THEN [cache EXCEPT ![cache_name] = to_pe]
    ELSE cache

SaveGains(cache, cache_name, cacheable, to_pe) ==
    IF cache_name # NoCacheName /\ cacheable /\ cache[cache_name] = NoFile
    THEN [cache EXCEPT ![cache_name] = to_pe]
    ELSE cache

(* get_pmt_gains(run_id, model_type, version) on the cache directory       *)
(* `cache`, where the corrections store would answer `store` (a gain array *)
(* or, for a version it does not have, NoFile for the ValueError of        *)
(* _get_correction). The result tells what was raised or returned, where   *)
(* the gains came from and what the cache directory holds afterwards.      *)
get_pmt_gains(cache, run_id, model_type, version, store) ==
    LET cacheable == version \in cacheable_versions
        cache_name == IF cacheable
                      THEN cacheable_naming(run_id, model_type, version)
                      ELSE NoCacheName
        cached == IF cacheable THEN get_resource(cache, cache_name) ELSE NoFile
        read_store == cached = NoFile
        to_pe == IF read_store THEN store ELSE cached
        raised(what) == [outcome |-> what, to_pe |-> <<>>, loaded |-> to_pe,
                         read_store |-> read_store, cache |-> cache]
    IN  IF ~IsSubstring(to_pe_model, model_type)
        THEN [outcome |-> "ValueError", to_pe |-> <<>>, loaded |-> <<>>,
              read_store |-> FALSE, cache |-> cache]
        ELSE IF to_pe = NoFile THEN raised("ValueError")
        ELSE IF isnan_all(to_pe) THEN raised("ValueError")
        ELSE IF isnan_any(as_gain_dtype(to_pe)) THEN raised("GainsNotFoundError")
        ELSE [outcome |-> "returned", to_pe |-> as_gain_dtype(to_pe),
              loaded |-> to_pe, read_store |-> read_store,
              cache |-> SaveGains(cache, cache_name, cacheable,
                                  as_gain_dtype(to_pe))]

(* The cache directory at the start: empty, or with one file that some     *)
(* earlier program left under a name of Run 1.                             *)
InitCaches ==
    {[n \in CacheNames |-> NoFile]}
    \cup {[n \in CacheNames |->
              IF n = cacheable_naming(<<"1">>, to_pe_model, v)
              THEN g ELSE NoFile] : g \in Gains, v \in GainVersions}

NoCall ==
    [run_id |-> <<>>, model_type |-> <<>>, version |-> <<>>, before |-> <<>>,
     store |-> <<>>, outcome |-> "", to_pe |-> <<>>, loaded |-> <<>>, read_store |-> FALSE]

InitGains ==
    /\ Parked
    /\ pool = NoPool
    /\ \E cache \in InitCaches :
          query = [fn |-> "get_pmt_gains", cache |-> cache, fresh |-> cache,
                   ncalls |-> 0, call |-> NoCall]

CallGetPmtGains ==
    /\ query.fn = "get_pmt_gains"
    /\ query.ncalls < MaxCalls
    /\ \E run_id \in GainRunIds, model_type \in GainModelTypes,
          version \in GainVersions, store \in Gains \cup {NoFile} :
          LET r == get_pmt_gains(query.cache, run_id, model_type, version, store)
          IN  query' = [query EXCEPT
                  !.cache = r.cache,
                  !.ncalls = @ + 1,
                  !.call = [run_id |-> run_id, model_type |-> model_type,
                            version |-> version, before |-> query.cache,
                            store |-> store,
                            outcome |-> r.outcome, to_pe |-> r.to_pe,
                            loaded |-> r.loaded, read_store |-> r.read_store]]
    /\ UNCHANGED <<dbvars, localvars, histvars, loopvars, pool>>

NextGains ==
    \/ CallGetPmtGains

SpecGains == InitGains /\ [][NextGains]_vars

Called == query.fn = "get_pmt_gains" /\ query.ncalls > 0

(* C25: get_pmt_gains never returns gains with a NaN among them. Gains     *)
(* that are all NaN make it raise ValueError, gains of which some are NaN  *)
(* make it raise GainsNotFoundError, whether they came from the cache or   *)
(* from the corrections store, and a call that raises leaves the cache     *)
(* directory as it was.                                                    *)
C25_NoNaNGains ==
    Called =>
        LET loaded == query.call.loaded
            some == \E i \in DOMAIN loaded : loaded[i] = NaN
            every == loaded # <<>> /\ \A i \in DOMAIN loaded : loaded[i] = NaN
        IN  /\ query.call.outcome = "returned"
                   => /\ Len(query.call.to_pe) = NPmts
                      /\ \A i \in 1..NPmts : query.call.to_pe[i] # NaN
            /\ every => query.call.outcome = "ValueError"
            /\ (some /\ ~every) => query.call.outcome = "GainsNotFoundError"
            /\ query.call.outcome # "returned" => query.cache = query.call.before

(* C25 witness: a call for a cacheable version with no cache file got      *)
(* gains from the corrections store of which one is NaN, and raised.       *)
C25_Witness ==
    /\ Called
    /\ query.call.version \in cacheable_versions
    /\ query.call.read_store
    /\ Len(query.call.loaded) = NPmts
    /\ \E i, j \in 1..NPmts : query.call.loaded[i] = NaN /\ query.call.loaded[j] # NaN
    /\ query.call.outcome = "GainsNotFoundError"
    /\ \A n \in CacheNames : query.cache[n] = NoFile

(* C26: get_pmt_gains is a read-through cache for the cacheable versions.  *)
(* A call that returns gains of a cacheable version leaves them stored     *)
(* under the cache name; a call that finds gains stored by an earlier call *)
(* returns exactly these and does not read the corrections store; no call  *)
(* changes a cache file that exists; and a call for a version that is not  *)
(* cacheable reads the corrections store and leaves the cache as it was,   *)
(* whatever lies in the cache directory.                                   *)
C26_ReadThroughCache ==
    /\ [](Called /\ IsSubstring(to_pe_model, query.call.model_type) =>
            LET c == query.call
                name == cacheable_naming(c.run_id, c.model_type, c.version)
            IN  IF c.version \in cacheable_versions
                THEN /\ c.outcome = "returned" =>
                           /\ query.cache[name] # NoFile
                           /\ c.before[name] = NoFile => query.cache[name] = c.to_pe
                     /\ c.before[name] # NoFile => ~c.read_store
                     /\ (c.before[name] # NoFile /\ query.fresh[name] = NoFile)
                           => c.outcome = "returned" /\ c.to_pe = c.before[name]
                ELSE /\ c.read_store
                     /\ c.loaded = c.store
                     /\ query.cache = c.before)
    /\ [][\A n \in CacheNames : query.cache[n] # NoFile => query'.cache[n] = query.cache[n]]_vars

(* C26 witness: a later call is answered from the gains that an earlier    *)
(* call stored, although the corrections store would now answer something  *)
(* else.                                                                   *)
C26_Witness ==
    /\ Called
    /\ query.ncalls >= 2
    /\ query.call.version \in cacheable_versions
    /\ IsSubstring(to_pe_model, query.call.model_type)
    /\ LET name == cacheable_naming(query.call.run_id, query.call.model_type,
                                    query.call.version)
       IN  /\ query.fresh[name] = NoFile
           /\ query.call.before[name] # NoFile
           /\ query.call.store # NoFile
           /\ query.call.store # query.call.before[name]
           /\ query.call.to_pe = query.call.before[name]
    /\ query.call.outcome = "returned"
    /\ ~query.call.read_store

(* The place of a step in handle_run. *)
StepRank(step) ==
    CASE step = "handle" -> 1
      [] step = "rechunk" -> 2
      [] step = "checks" -> 3
      [] step = "validate" -> 4
      [] step = "bypass" -> 5
      [] step \in {"finalize", "status"} -> 6
      [] step = "remove" -> 7
      [] step = "finished" -> 8
      [] OTHER -> 0

(* C27: per-Run step order. The steps of a handled Run follow each other   *)
(* in the order transform, Consistency Checker, Deep Validator (only with  *)
(* --deep_compare), move of the skip-set, finalize, deletion, done; and no *)
(* move, finalize, deletion or done step is reached while an exception of  *)
(* an earlier step of that Run is left behind.                             *)
C27_StepOrder ==
    /\ [][\A o \in instances :
            (pc[o] \in InFlight /\ pc'[o] \in InFlight)
            => /\ StepRank(pc'[o]) >= StepRank(pc[o])
               /\ pc'[o] = "validate" => args.deep_compare
               /\ (pc[o] = "checks" /\ args.deep_compare) => pc'[o] = "validate"]_vars
    /\ [][\A o \in instances :
            (pc[o] = "finished" /\ pc'[o] # "finished" /\ ncrash' = ncrash)
            => status'[run_doc[o].number] = status[run_doc[o].number]]_vars
    /\ [](\A o \in instances : StepRank(pc[o]) >= 5 => ~lost[o])

(* C28: with max_threads > 1 a Run of which a transform raised inside its  *)
(* thread is not finalized, loses no pre-processed copy and is not marked  *)
(* done: the steps after the Deep Validator are not taken for it, also     *)
(* with --ignore_checks, and the Run ends failed.                          *)
C28_WorkerFailureFailsRun ==
    /\ [][\A o \in instances :
            (args.max_threads > 1 /\ lost[o] /\ pc[o] \in InFlight /\ ncrash' = ncrash)
            => /\ pc'[o] \notin {"finalize", "status", "remove", "finished"}
               /\ fs' = fs \/ pc[o] = "rechunk"
               /\ dbloc' = dbloc
               /\ pc'[o] \notin InFlight => restrax'[run_doc[o].number].state = "failed"]_vars

(* C29: all-or-nothing completion. When rechunk_docs has returned, every   *)
(* data document was handed to _rechunk_per_doc and none of these calls is  *)
(* still running, for every max_threads and every number of documents; nor *)
(* is any still running when an exception has left rechunk_docs. What      *)
(* follows rechunk_docs in handle_run therefore starts with no transform   *)
(* of the Run in flight.                                                   *)
C29_AllOrNothing ==
    /\ pool.pc = "returned" => (pool.started = pool.docs /\ pool.alive = {})
    /\ pool.pc = "raised" => pool.alive = {}

(* C29 witness: rechunk_docs has returned from its thread branch with the  *)
(* largest number of documents, one of which raised in its thread.         *)
C29_Witness ==
    /\ pool.pc = "returned"
    /\ pool.max_threads = 2
    /\ pool.docs = MaxDocs
    /\ pool.started = MaxDocs
    /\ pool.raised # {}

RECURSIVE Violations(_)
Violations(data_docs) ==
    IF data_docs = <<>> THEN 0
    ELSE ErrorCount(Head(data_docs)) + Violations(Tail(data_docs))

(* C30: the Consistency Checker is not fail-fast. With checks enabled      *)
(* do_checks makes the checks of every data document, also after a         *)
(* document with a violation (a folder that does not exist included), and  *)
(* when there is any violation it raises one ValueError, after the last    *)
(* document, that holds the violations of all documents.                   *)
C30_NotFailFast ==
    (query.fn = "do_checks" /\ query.done /\ ~query.ignore_checks)
    => /\ query.loop.seen = Len(query.data_docs)
       /\ query.loop.errors = Violations(query.data_docs)
       /\ query.loop.exc = (IF Violations(query.data_docs) > 0 THEN "ValueError" ELSE "")
       /\ query.out = (IF query.loop.exc = "" THEN "returned" ELSE "raised")

----------------------------------------------------------------------------
(* Bypass mode: every data document of the Run is on skip_docs. While the  *)
(* process moves them, other programs on the host create and remove        *)
(* directories of the units.                                               *)

BypassFlags == [Flags(FALSE, 2, FALSE) EXCEPT !.bypass_mode = TRUE]

InitBypass ==
    /\ instances = {1}
    /\ args = BypassFlags
    /\ max_tries = max_tries_default
    /\ InitStore({1})

(* Something outside the process changes the directories of a unit of the  *)
(* Run that is being moved.                                                *)
Disturb(o) ==
    /\ pc[o] = "bypass"
    /\ \E i \in 1..Len(skip_docs[o]), c \in [Folders -> {"none", "orig"}] :
          fs' = [fs EXCEPT ![skip_docs[o][i].u] = c]
    /\ UNCHANGED <<auxvars, instances, args, max_tries, dbvars, pc, localvars, histvars, ncrash>>

NextBypass ==
    \/ \E o \in instances : FindWork(o)
    \/ \E o \in instances : SetBusy(o)
    \/ \E o \in instances : HandleStart(o)
    \/ \E o \in instances : DoChecks(o)
    \/ \E o \in instances : BypassDoc(o)
    \/ \E o \in instances : Disturb(o)

SpecBypass == InitBypass /\ [][NextBypass]_vars

(* C31: verbatim move with a missing source. When _bypass_for_data_doc of  *)
(* a skip unit finds that the source directory does not exist, it raises   *)
(* nothing, sends a warning, leaves the source as it is, and handle_run    *)
(* goes on with the next skip unit or, after the last, with                *)
(* finalize_execute.                                                       *)
C31_MissingSourceMove ==
    [][\A o \in instances :
         (pc[o] = "bypass" /\ <<pc[o], idx[o]>> # <<pc'[o], idx'[o]>> /\ ncrash' = ncrash) =>
            LET d == skip_docs[o][idx[o]]
                source == d.location
            IN ~Exists(fs[d.u][source]) =>
                 /\ nattempt' = nattempt
                 /\ restrax' = restrax
                 /\ BypassAlerts(fs, d) >= 1
                 /\ fs'[d.u][source] = fs[d.u][source]
                 /\ pc'[o] = AfterBypass(o, idx[o] + 1)
                 /\ pc'[o] = "bypass" => idx'[o] = idx[o] + 1]_vars

(* C31 witness: the process is at the second skip unit of a Run after it   *)
(* found the first without source directory and without a directory in the *)
(* output folder.                                                          *)
C31_Witness ==
    \E o \in instances :
        /\ pc[o] = "bypass"
        /\ idx[o] = 2
        /\ LET d == skip_docs[o][1]
           IN /\ ~Exists(fs[d.u][d.location])
              /\ ~Exists(fs[d.u][renamed_path(d.location)])
        /\ Exists(fs[skip_docs[o][2].u][skip_docs[o][2].location])

----------------------------------------------------------------------------
(* overwrite_settings: the attributes of the ReStrax object and the        *)
(* restrax_config document. A value is a Python object: its type and what  *)
(* it holds. 5 as int and 5.0 as float are [t |-> "int", v |-> 5] and      *)
(* [t |-> "float", v |-> 5]; True is [t |-> "bool", v |-> 1].              *)

MaxIterations == 2      \* iterations of infinite_loop that are followed

Val(t, v) == [t |-> t, v |-> v]

(* isinstance(object of type t, cls): bool is a subclass of int,           *)
(* immutabledict of dict (and so a Mapping), everything but numbers and    *)
(* None is Iterable.                                                       *)
IsInstance(t, cls) ==
    \/ t = cls
    \/ t = "bool" /\ cls = "int"
    \/ t = "immutabledict" /\ cls \in {"dict", "Mapping"}
    \/ t = "dict" /\ cls = "Mapping"
    \/ t \in {"str", "list", "tuple", "dict", "immutabledict"} /\ cls = "Iterable"

(* current == value in Python: numbers compare by value whatever their     *)
(* type, mappings by their items, a tuple never equals a list.             *)
PyEq(a, b) ==
    LET numbers == {"int", "float", "bool"}
        mappings == {"dict", "immutabledict"}
    IN /\ a.v = b.v
       /\ \/ a.t = b.t
          \/ a.t \in numbers /\ b.t \in numbers
          \/ a.t \in mappings /\ b.t \in mappings

(* The attributes a field of the document can name, with the value         *)
(* __init__ leaves in them in production mode. read_from has no type hint. *)
InitSettings ==
    [max_tries |-> Val("int", max_tries_default),
     ignore_checks |-> Val("bool", 0),
     exclude_modes |-> Val("tuple", 8),
     target_size |-> Val("immutabledict", 9),
     read_from |-> Val("NoneType", 0)]

(* ty.get_type_hints(ReStrax) through _get_instance_from_hint: the classes *)
(* a value may be an instance of.                                          *)
TypeHints ==
    [max_tries |-> {"int"},
     ignore_checks |-> {"bool"},
     exclude_modes |-> {"Iterable"},
     target_size |-> {"Mapping"}]

(* Fields of the document: attributes, and "user", which is none.          *)
ConfigFields == DOMAIN InitSettings \cup {"user"}

ConfigValues ==
    {Val("int", 1), Val("int", max_tries_default), Val("float", max_tries_default),
     Val("bool", 0), Val("bool", 1), Val("str", 7), Val("list", 8), Val("dict", 9),
     Val("dict", 10), Val("NoneType", 0)}

(* The test of overwrite_settings that lets setattr happen. *)
Accepts(current, field, value) ==
    LET matches_type_hints == /\ field \in DOMAIN TypeHints
                              /\ \E cls \in TypeHints[field] : IsInstance(value.t, cls)
        is_same == IsInstance(current.t, value.t)
        both_list == current.t = "tuple" /\ value.t = "list"
        both_dict == current.t = "immutabledict" /\ value.t = "dict"
    IN matches_type_hints \/ is_same \/ both_list \/ both_dict

(* The body of the loop of overwrite_settings for one field: what the      *)
(* attributes are after it and whether it logged the warning.              *)
ApplyField(settings, field, value) ==
    IF field \notin DOMAIN settings
    THEN [settings |-> settings, warned |-> FALSE]
    ELSE IF PyEq(settings[field], value)
    THEN [settings |-> settings, warned |-> FALSE]
    ELSE IF Accepts(settings[field], field, value)
    THEN [settings |-> [settings EXCEPT ![field] = value], warned |-> FALSE]
    ELSE [settings |-> settings, warned |-> TRUE]

RECURSIVE overwrite_settings(_, _, _)
overwrite_settings(settings, update_config, warned) ==
    IF update_config = <<>> THEN [settings |-> settings, warned |-> warned]
    ELSE LET e == Head(update_config)
             r == ApplyField(settings, e.field, e.value)
         IN overwrite_settings(r.settings, Tail(update_config),
                               IF r.warned THEN warned \cup {e.field} ELSE warned)

(* The restrax_config document: one or two fields.                         *)
ConfigDocs ==
    LET entries == {[field |-> f, value |-> v] : f \in ConfigFields, v \in ConfigValues}
    IN {<<e>> : e \in entries}
       \cup {p \in entries \X entries : p[1].field # p[2].field}

InitConfig ==
    /\ Parked
    /\ pool = NoPool
    /\ \E doc \in ConfigDocs :
          query = [fn |-> "overwrite_settings", at |-> "top", iterations |-> 0,
                   doc |-> doc, stored |-> doc, settings |-> InitSettings,
                   before |-> InitSettings, warned |-> {}]

(* infinite_loop: self.overwrite_settings() at the top of the while loop.  *)
OverwriteSettings ==
    /\ query.fn = "overwrite_settings"
    /\ query.at = "top"
    /\ query.iterations < MaxIterations
    /\ LET r == overwrite_settings(query.settings, query.doc, {})
       IN query' = [query EXCEPT !.at = "find_work", !.before = query.settings,
                                 !.settings = r.settings, !.warned = r.warned]
    /\ UNCHANGED <<loopvars, pool>>

(* infinite_loop: find_work and the rest of the iteration, which comes     *)
(* back to the top of the loop.                                            *)
RestOfIteration ==
    /\ query.fn = "overwrite_settings"
    /\ query.at = "find_work"
    /\ query' = [query EXCEPT !.at = "top", !.iterations = @ + 1]
    /\ UNCHANGED <<loopvars, pool>>

NextConfig ==
    \/ OverwriteSettings
    \/ RestOfIteration

SpecConfig == InitConfig /\ [][NextConfig]_vars

(* C32: config reload. overwrite_settings runs at the top of every         *)
(* iteration, before find_work. For each field of the restrax_config       *)
(* document: a field that is no attribute changes nothing; a value that is *)
(* an instance of the type of the current value or of the classes of the   *)
(* type hint, a list for a tuple or a dict for an immutabledict, is what   *)
(* the attribute holds afterwards; any other value leaves the attribute as *)
(* it was and a warning is logged. Attributes the document does not name   *)
(* keep their value, and the document is left as it was stored.            *)
C32_ConfigReload ==
    /\ [](query.fn = "overwrite_settings" /\ query.at = "find_work" =>
            /\ DOMAIN query.settings = DOMAIN query.before
            /\ query.doc = query.stored
            /\ \A f \in DOMAIN query.settings :
                  (\A i \in 1..Len(query.doc) : query.doc[i].field # f)
                      => query.settings[f] = query.before[f]
            /\ \A i \in 1..Len(query.doc) :
                  LET f == query.doc[i].field
                      value == query.doc[i].value
                  IN IF f \notin DOMAIN query.before THEN f \notin query.warned
                     ELSE LET current == query.before[f]
                              compatible ==
                                  \/ value.t = current.t
                                  \/ value.t = "bool" /\ current.t = "int"
                                  \/ f \in DOMAIN TypeHints
                                     /\ \E cls \in TypeHints[f] : IsInstance(value.t, cls)
                                  \/ value.t = "list" /\ current.t = "tuple"
                                  \/ value.t = "dict" /\ current.t = "immutabledict"
                          IN IF compatible
                             THEN PyEq(query.settings[f], value) /\ f \notin query.warned
                             ELSE query.settings[f] = current /\ f \in query.warned)
    /\ [][query.fn = "overwrite_settings" /\ query'.iterations > query.iterations
            => query.at = "find_work"]_vars

(* C33: find_work priority. In production mode the Run find_work reads     *)
(* from the store is the newest of the Runs of this host that bootstrax    *)
(* has finished and that have no restrax field; only when there is none,   *)
(* it is the newest of the Runs with a restrax field that may be tried     *)
(* again; and find_work returns None only when there are neither.          *)
C33_FindWorkPriority ==
    [][\A o \in instances :
         (args.production /\ pc[o] = "idle" /\ pc'[o] # "idle" /\ ncrash' = ncrash) =>
            LET eligible == {r \in Runs : /\ status[r] = "eb_finished_pre"
                                          /\ BootstraxHost(r) = hostname
                                          /\ args.process # 0 => r = args.process}
                unclaimed == {r \in eligible : restrax[r].state = "none"}
                tried == {r \in eligible : /\ restrax[r].state \notin {"none", "done"}
                                           /\ restrax[r].n_tries <= max_tries}
                found == IF pc'[o] = "found" THEN run_doc'[o].number
                         ELSE IF last'.op = "failed" /\ last' # last THEN last'.run
                         ELSE 0
            IN /\ unclaimed # {} => (found \in unclaimed /\ \A r \in unclaimed : r <= found)
               /\ (unclaimed = {} /\ tried # {})
                     => (found \in tried /\ \A r \in tried : r <= found)
               /\ (unclaimed = {} /\ tried = {}) => (found = 0 /\ pc'[o] \in {"nap", "exited"})]_vars

(* C33 witness: find_work returned a Run that failed before, the newer of  *)
(* two such Runs, while no Run without restrax field is waiting.           *)
C33_Witness ==
    \E o \in instances :
        /\ pc[o] = "found"
        /\ restrax[run_doc[o].number].state = "failed"
        /\ \E r \in Runs : /\ r < run_doc[o].number
                           /\ restrax[r].state = "failed"
                           /\ restrax[r].n_tries <= max_tries
                           /\ status[r] = "eb_finished_pre"
        /\ \A r \in Runs : status[r] = "eb_finished_pre" => restrax[r].state # "none"

-----------------------------------------------------------------------------
(* A fleet of event builders: each Run was built by this host or by        *)
(* another one, and the fourth unit was written by another host.           *)

Hosts == {hostname, "eb1"}

InitFleet ==
    /\ instances = {1}
    /\ args = Flags(FALSE, 2, FALSE)
    /\ max_tries = max_tries_default
    /\ InitState(Runs)
    /\ \E hosts \in [Runs -> Hosts] :
          query = [fn |-> "fleet", done |-> FALSE, hosts |-> hosts]

SpecFleet == InitFleet /\ [][Next]_vars

(* C34: host partition. A process holds and claims only Runs whose         *)
(* bootstrax.host is its own host, the Runs of other hosts keep status and *)
(* restrax field, the docs a process works on are all of its own host, and *)
(* no step changes the directories or the stored location of a unit whose  *)
(* host is another one.                                                    *)
C34_HostPartition ==
    /\ [](\A o \in instances :
            /\ run_doc[o].number # 0 => query.hosts[run_doc[o].number] = hostname
            /\ \A i \in 1..Len(compress_docs[o]) :
                   UnitHost(compress_docs[o][i].u) = hostname
            /\ \A i \in 1..Len(skip_docs[o]) :
                   UnitHost(skip_docs[o][i].u) = hostname)
    /\ [][/\ \A r \in Runs : query.hosts[r] # hostname =>
                  status'[r] = status[r] /\ restrax'[r] = restrax[r]
          /\ \A u \in Units : UnitHost(u) # hostname =>
                  fs'[u] = fs[u] /\ dbloc'[u] = dbloc[u]]_vars

(* C34 witness: a Run of this host is done, with a unit of this host moved *)
(* and registered, next to a Run of another host and a unit of another     *)
(* host in a Run of this host.                                             *)
C34_Witness ==
    /\ \E r \in Runs : query.hosts[r] # hostname
    /\ \E u \in Units : UnitHost(u) # hostname /\ query.hosts[UnitRun(u)] = hostname
                          /\ restrax[UnitRun(u)].state = "done"
    /\ \E u \in Units : /\ UnitHost(u) = hostname
                          /\ restrax[UnitRun(u)].state = "done"
                          /\ dbloc[u] # "pre"
-----------------------------------------------------------------------------
(* The order of dispatch: handle_run on a run document whose data array    *)
(* holds docs in any order, followed through _get_data_docs, the split and *)
(* rechunk_docs. Thread t of the pool works on the t-th doc of             *)
(* compress_docs, which `query` holds.                                     *)

(* The data arrays: docs of different units in any order. *)
DataArrays ==
    {s \in UNION {[1..n -> Units] : n \in 0..NUnits} :
        \A i, j \in DOMAIN s : i # j => s[i] # s[j]}

AsDocs(s) == [i \in DOMAIN s |-> [u |-> s[i], location |-> "pre"]]

InitOrder ==
    /\ Parked
    /\ \E s \in DataArrays :
          query = [fn |-> "handle_run", done |-> FALSE, number |-> 1,
                   data |-> AsDocs(s), compress_docs |-> <<>>]
    /\ \E m \in 1..MaxThreads : pool = [NoPool EXCEPT !.max_threads = m]

(* handle_run up to the call of rechunk_docs. *)
HandleRunSplit ==
    /\ query.fn = "handle_run"
    /\ ~query.done
    /\ LET docs == _get_data_docs(query.data)
           cdocs == SelectSkip(query.number, docs, FALSE)
       IN /\ query' = [query EXCEPT !.done = TRUE, !.compress_docs = cdocs]
          /\ pool' = [pool EXCEPT !.docs = Len(cdocs), !.pc = "loop"]
    /\ UNCHANGED loopvars

NextOrder ==
    \/ HandleRunSplit
    \/ NextPool

SpecOrder == InitOrder /\ [][NextOrder]_vars

(* sum of nbytes over the chunks of the directory of a doc *)
DocBytes(d) == SizeOf(d.u, fs[d.u][d.location])

(* C35: largest first. When rechunk_docs hands the next doc of a Run to    *)
(* _rechunk_per_doc, in the caller or in a new thread, no doc handed over  *)
(* before it has fewer chunk bytes, and the docs are handed over in the    *)
(* order of the list, each once.                                           *)
C35_LargestFirst ==
    [][pool.started' # pool.started =>
          /\ pool.started' = pool.started + 1
          /\ pool.started' <= Len(query.compress_docs)
          /\ \A i \in 1..pool.started :
                 DocBytes(query.compress_docs[i])
                    >= DocBytes(query.compress_docs[pool.started'])]_vars

(* C35 witness: two docs run in threads at the same time, the larger was   *)
(* started first although it came later in the data array.                 *)
C35_Witness ==
    /\ query.fn = "handle_run" /\ query.done
    /\ pool.max_threads > 1
    /\ {1, 2} \subseteq pool.alive
    /\ DocBytes(query.compress_docs[1]) > DocBytes(query.compress_docs[2])
    /\ \E i, j \in DOMAIN query.data :
          /\ i < j
          /\ query.data[i] = query.compress_docs[2]
          /\ query.data[j] = query.compress_docs[1]
-----------------------------------------------------------------------------
(* C36: one failure record per attempt. A step that ends an attempt of a   *)
(* Run with an exception, in handle_run or in the size-sorting of          *)
(* find_work, executes set_restrax_failed once: the stored n_tries grows   *)
(* by 1 and at most one escalation is emitted.                             *)
C36_OneFailureRecord ==
    [][\A r \in Runs :
          (nfail'[r] # nfail[r] \/ nattempt'[r] # nattempt[r]) =>
              /\ nfail'[r] = nfail[r] + 1
              /\ restrax'[r].n_tries = restrax[r].n_tries + 1
              /\ escalations'[r] <= escalations[r] + 1]_vars

====
